---------------------------- MODULE Spec2Model ----------------------------
(***************************************************************************)
(* Quote relocation engine: transcript index, exact / normalized / fuzzy   *)
(* matchers (quote-matcher) and the per-quote orchestrator findExactQuotes *)
(* (ai-processing).                                                        *)
(*                                                                         *)
(* Text is a sequence of one-character strings.  Positions and segment     *)
(* indices are 0-based as in the source; TLA+ sequences are 1-based, so    *)
(* text[k] of the source is text[k+1] here.  Similarities and confidences  *)
(* are exact fractions [num, den]; the thresholds the source compares them *)
(* with are decimal literals, written here as n/100.                       *)
(***************************************************************************)
EXTENDS Integers, Sequences, FiniteSets, TLC

VARIABLES
  transcript,   \* the caller's segments: [start, duration, text]
  index,        \* the TranscriptIndex built from transcript
  phase,        \* "start", "indexed", then where the operation under study stands:
                \* "resolving", "resolved", "matched", "searching", "searched", "mapped",
                \* "scored", "normalized-mapped", "chunking", "chunked"
  quotes,       \* the quotes handed to findExactQuotes
  outcomes,     \* per quote: the branch taken and the value the callback returned
  highlights,   \* what findExactQuotes returned
  target,       \* the text handed to findTextInTranscript, with how it was built
  opts,         \* the options handed to findTextInTranscript
  match,        \* what findTextInTranscript returned
  call,         \* the arguments of a direct call of one of the matcher's functions
  ret           \* what that call returned

vars == <<transcript, index, phase, quotes, outcomes, highlights, target, opts, match,
          call, ret>>

-----------------------------------------------------------------------------
(* Characters                                                              *)

UpperLetters ==
  <<"A", "B", "C", "D", "E", "F", "G", "H", "I", "J", "K", "L", "M",
    "N", "O", "P", "Q", "R", "S", "T", "U", "V", "W", "X", "Y", "Z">>

LowerLetters ==
  <<"a", "b", "c", "d", "e", "f", "g", "h", "i", "j", "k", "l", "m",
    "n", "o", "p", "q", "r", "s", "t", "u", "v", "w", "x", "y", "z">>

Upper == {UpperLetters[i] : i \in DOMAIN UpperLetters}

Punct == {".", ",", "?", "!", "'"}

Whitespace == {" ", "\t", "\n"}

toLowerCase(c) ==
  IF c \in Upper
  THEN LowerLetters[CHOOSE i \in DOMAIN UpperLetters : UpperLetters[i] = c]
  ELSE c

IsSpace(c) == c \in Whitespace

Max(a, b) == IF a >= b THEN a ELSE b

Min(a, b) == IF a <= b THEN a ELSE b

(* text.replace(/\s+/g, ' ') *)
CollapseWhitespace(s) ==
  LET marked == [i \in 1..Len(s) |->
                   [c    |-> IF IsSpace(s[i]) THEN " " ELSE s[i],
                    keep |-> ~IsSpace(s[i]) \/ i = 1 \/ ~IsSpace(s[i - 1])]]
      kept   == SelectSeq(marked, LAMBDA m : m.keep)
  IN [k \in 1..Len(kept) |-> kept[k].c]

(* text.replace(/\s+/g, '') *)
StripWhitespace(s) == SelectSeq(s, LAMBDA c : ~IsSpace(c))

(* String.prototype.trim *)
Trim(s) ==
  LET nonSpace == {i \in 1..Len(s) : ~IsSpace(s[i])}
  IN IF nonSpace = {} THEN <<>>
     ELSE SubSeq(s, CHOOSE i \in nonSpace : \A j \in nonSpace : i <= j,
                    CHOOSE i \in nonSpace : \A j \in nonSpace : i >= j)

(* text.split(/\s+/) *)
SplitWhitespace(s) ==
  LET n         == Len(s)
      positions == [i \in 1..n |-> i]
      runStarts == SelectSeq(positions,
                     LAMBDA i : IsSpace(s[i]) /\ (i = 1 \/ ~IsSpace(s[i - 1])))
      runEnds   == SelectSeq(positions,
                     LAMBDA i : IsSpace(s[i]) /\ (i = n \/ ~IsSpace(s[i + 1])))
  IN [k \in 1..(Len(runStarts) + 1) |->
        SubSeq(s, IF k = 1 THEN 1 ELSE runEnds[k - 1] + 1,
                  IF k = Len(runStarts) + 1 THEN n ELSE runStarts[k] - 1)]

(* a.includes(b) *)
Includes(a, b) ==
  \E p \in 0..(Len(a) - Len(b)) : SubSeq(a, p + 1, p + Len(b)) = b

(* segments.map(s => s.text).join(' ') *)
RECURSIVE JoinSpace(_)
JoinSpace(texts) ==
  IF Len(texts) = 0 THEN <<>>
  ELSE IF Len(texts) = 1 THEN texts[1]
  ELSE texts[1] \o <<" ">> \o JoinSpace(Tail(texts))

-----------------------------------------------------------------------------
(* quote-matcher: normalization, similarity, substring search              *)

normalizeWhitespace(text) == Trim(CollapseWhitespace(text))

(* normalizeForMatching without toLowerCase *)
normalizeForMatchingCaseSensitive(text) ==
  Trim(CollapseWhitespace(SelectSeq(text, LAMBDA c : c \notin Punct)))

normalizeForMatching(text) ==
  LET lower    == [i \in 1..Len(text) |-> toLowerCase(text[i])]
      stripped == SelectSeq(lower, LAMBDA c : c \notin Punct)
  IN Trim(CollapseWhitespace(stripped))

N_GRAM_SIZE == 3

Ngrams(clean) ==
  {SubSeq(clean, i, i + N_GRAM_SIZE - 1) : i \in 1..(Len(clean) - N_GRAM_SIZE + 1)}

Frac(n, d) == [num |-> n, den |-> d]

FracGE(a, b) == a.num * b.den >= b.num * a.den

(* calculateNgramSimilarity dividing by the n-grams of the first string *)
calculateNgramSimilarityOverFirst(str1, str2) ==
  IF Len(str1) = 0 \/ Len(str2) = 0 THEN Frac(0, 1)
  ELSE
    LET ngrams1 == Ngrams(StripWhitespace(str1))
        ngrams2 == Ngrams(StripWhitespace(str2))
    IN IF ngrams1 = {} \/ ngrams2 = {}
       THEN IF Includes(StripWhitespace(str1), StripWhitespace(str2))
               \/ Includes(StripWhitespace(str2), StripWhitespace(str1))
            THEN Frac(4, 5) ELSE Frac(0, 1)
       ELSE Frac(Cardinality(ngrams1 \cap ngrams2), Cardinality(ngrams1))

calculateNgramSimilarity(str1, str2) ==
  IF Len(str1) = 0 \/ Len(str2) = 0 THEN Frac(0, 1)
  ELSE
    LET clean1  == StripWhitespace(str1)
        clean2  == StripWhitespace(str2)
        ngrams1 == Ngrams(clean1)
        ngrams2 == Ngrams(clean2)
    IN IF ngrams1 = {} \/ ngrams2 = {}
       THEN IF Includes(clean1, clean2) \/ Includes(clean2, clean1)
            THEN Frac(4, 5) ELSE Frac(0, 1)
       ELSE LET intersection == Cardinality(ngrams1 \cap ngrams2)
                union == Cardinality(ngrams1) + Cardinality(ngrams2) - intersection
            IN Frac(intersection, union)

(* BadCharSkip keeping the first i < m-1 with pattern[i] = c *)
BadCharSkipFirst(pattern, c) ==
  LET m    == Len(pattern)
      hits == {i \in 0..(m - 2) : pattern[i + 1] = c}
  IN IF hits = {} THEN m
     ELSE m - 1 - (CHOOSE i \in hits : \A j \in hits : i <= j)

(* badChar.get(c) after the table loop: the last i < m-1 with pattern[i] = c *)
BadCharSkip(pattern, c) ==
  LET m    == Len(pattern)
      hits == {i \in 0..(m - 2) : pattern[i + 1] = c}
  IN IF hits = {} THEN m
     ELSE m - 1 - (CHOOSE i \in hits : \A j \in hits : i >= j)

(* the inner while: k on a full match, -1 on a mismatch *)
RECURSIVE BMCompare(_, _, _, _)
BMCompare(text, pattern, j, k) ==
  IF j >= 0 /\ k >= 0 /\ text[k + 1] = pattern[j + 1]
  THEN IF j = 0 THEN k ELSE BMCompare(text, pattern, j - 1, k - 1)
  ELSE -1

RECURSIVE BMScan(_, _, _)
BMScan(text, pattern, i) ==
  IF i >= Len(text) THEN -1
  ELSE LET hit == BMCompare(text, pattern, Len(pattern) - 1, i)
       IN IF hit # -1 THEN hit
          ELSE BMScan(text, pattern, i + BadCharSkip(pattern, text[i + 1]))

boyerMooreSearch(text, pattern) ==
  IF Len(pattern) = 0 THEN 0
  ELSE IF Len(pattern) > Len(text) THEN -1
  ELSE BMScan(text, pattern, Len(pattern) - 1)

-----------------------------------------------------------------------------
(* quote-matcher: index construction                                       *)

EmptyIndex ==
  [fullTextSpace     |-> <<>>,
   fullTextNewline   |-> <<>>,
   normalizedText    |-> <<>>,
   segmentBoundaries |-> <<>>,
   wordIndex         |-> <<>>,
   ngramIndex        |-> <<>>]

(* AddWords pushing a segment once per distinct word *)
AddWordsOnce(wordIndex, words, idx) ==
  LET long == {words[i] : i \in {j \in 1..Len(words) : Len(words[j]) > 2}}
      keys == DOMAIN wordIndex \cup long
      old(w) == IF w \in DOMAIN wordIndex THEN wordIndex[w] ELSE <<>>
  IN [w \in keys |-> IF w \in long THEN Append(old(w), idx) ELSE old(w)]

(* wordIndex after the words of one segment are pushed *)
AddWords(wordIndex, words, idx) ==
  LET long == SelectSeq(words, LAMBDA w : Len(w) > 2)
      keys == DOMAIN wordIndex \cup {long[i] : i \in 1..Len(long)}
      hits(w) == Len(SelectSeq(long, LAMBDA v : v = w))
      old(w) == IF w \in DOMAIN wordIndex THEN wordIndex[w] ELSE <<>>
  IN [w \in keys |-> old(w) \o [i \in 1..hits(w) |-> idx]]

AddNgrams(ngramIndex, cleanText, idx) ==
  LET grams == Ngrams(cleanText)
      keys  == DOMAIN ngramIndex \cup grams
      old(g) == IF g \in DOMAIN ngramIndex THEN ngramIndex[g] ELSE {}
  IN [g \in keys |-> IF g \in grams THEN old(g) \cup {idx} ELSE old(g)]

(* IndexSegment reading segmentStartPos before the separator is appended *)
IndexSegmentEarlyStartPos(ix, segment, idx) ==
  LET sep(c) == IF idx > 0 THEN <<c>> ELSE <<>>
      segmentStartPos   == Len(ix.fullTextSpace)
      segmentNormalized == normalizeForMatching(segment.text)
      newFull           == ix.fullTextSpace \o sep(" ") \o segment.text
      boundary == [segmentIdx     |-> idx,
                   startPos       |-> segmentStartPos,
                   endPos         |-> Len(newFull),
                   text           |-> segment.text,
                   normalizedText |-> segmentNormalized]
  IN [fullTextSpace     |-> newFull,
      fullTextNewline   |-> ix.fullTextNewline \o sep("\n") \o segment.text,
      normalizedText    |-> ix.normalizedText \o sep(" ") \o segmentNormalized,
      segmentBoundaries |-> Append(ix.segmentBoundaries, boundary),
      wordIndex         |-> AddWords(ix.wordIndex, SplitWhitespace(segmentNormalized), idx),
      ngramIndex        |-> AddNgrams(ix.ngramIndex, StripWhitespace(segmentNormalized), idx)]

(* one iteration of transcript.forEach((segment, idx) => ...) *)
IndexSegment(ix, segment, idx) ==
  LET sep(c) == IF idx > 0 THEN <<c>> ELSE <<>>
      segmentStartPos   == Len(ix.fullTextSpace) + Len(sep(" "))
      segmentNormalized == normalizeForMatching(segment.text)
      newFull           == ix.fullTextSpace \o sep(" ") \o segment.text
      boundary == [segmentIdx     |-> idx,
                   startPos       |-> segmentStartPos,
                   endPos         |-> Len(newFull),
                   text           |-> segment.text,
                   normalizedText |-> segmentNormalized]
  IN [fullTextSpace     |-> newFull,
      fullTextNewline   |-> ix.fullTextNewline \o sep("\n") \o segment.text,
      normalizedText    |-> ix.normalizedText \o sep(" ") \o segmentNormalized,
      segmentBoundaries |-> Append(ix.segmentBoundaries, boundary),
      wordIndex         |-> AddWords(ix.wordIndex, SplitWhitespace(segmentNormalized), idx),
      ngramIndex        |-> AddNgrams(ix.ngramIndex, StripWhitespace(segmentNormalized), idx)]

RECURSIVE IndexUpTo(_, _)
IndexUpTo(t, n) ==
  IF n = 0 THEN EmptyIndex
  ELSE IndexSegment(IndexUpTo(t, n - 1), t[n], n - 1)

buildTranscriptIndex(t) == IndexUpTo(t, Len(t))

-----------------------------------------------------------------------------
(* quote-matcher: offset mapping                                           *)

Null == [found |-> FALSE]

(* the for-loop of mapMatchToSegments from boundary number b on; acc holds  *)
(* startSegmentIdx, startCharOffset, endSegmentIdx, endCharOffset          *)
RECURSIVE MapMatchLoop(_, _, _, _, _)
MapMatchLoop(bs, b, matchStart, matchEnd, acc) ==
  IF b > Len(bs) THEN acc
  ELSE
    LET boundary == bs[b]
        acc1 == IF acc.startSegmentIdx = -1 /\ matchStart >= boundary.startPos
                   /\ matchStart < boundary.endPos
                THEN [acc EXCEPT !.startSegmentIdx = boundary.segmentIdx,
                                 !.startCharOffset = matchStart - boundary.startPos]
                ELSE acc
    IN IF matchEnd > boundary.startPos /\ matchEnd <= boundary.endPos
       THEN [acc1 EXCEPT !.endSegmentIdx = boundary.segmentIdx,
                         !.endCharOffset = matchEnd - boundary.startPos]
       ELSE IF matchEnd > boundary.endPos
       THEN MapMatchLoop(bs, b + 1, matchStart, matchEnd,
                         [acc1 EXCEPT !.endSegmentIdx = boundary.segmentIdx,
                                      !.endCharOffset = Len(boundary.text)])
       ELSE MapMatchLoop(bs, b + 1, matchStart, matchEnd, acc1)

NoSegments ==
  [startSegmentIdx |-> -1, endSegmentIdx |-> -1,
   startCharOffset |-> 0, endCharOffset |-> 0]

(* MappedResult reporting a match although no segment was found *)
MappedResultUnchecked(acc) ==
  [found           |-> TRUE,
   startSegmentIdx |-> acc.startSegmentIdx,
   endSegmentIdx   |-> acc.endSegmentIdx,
   startCharOffset |-> acc.startCharOffset,
   endCharOffset   |-> acc.endCharOffset]

MappedResult(acc) ==
  IF acc.startSegmentIdx # -1 /\ acc.endSegmentIdx # -1
  THEN [found           |-> TRUE,
        startSegmentIdx |-> acc.startSegmentIdx,
        endSegmentIdx   |-> acc.endSegmentIdx,
        startCharOffset |-> acc.startCharOffset,
        endCharOffset   |-> acc.endCharOffset]
  ELSE Null

(* mapMatchToSegments taking the last matched position for the end *)
mapMatchToSegmentsEndInclusive(matchStart, matchLength, ix) ==
  MappedResult(MapMatchLoop(ix.segmentBoundaries, 1, matchStart,
                            matchStart + matchLength - 1, NoSegments))

mapMatchToSegments(matchStart, matchLength, ix) ==
  MappedResult(MapMatchLoop(ix.segmentBoundaries, 1, matchStart,
                            matchStart + matchLength, NoSegments))

(* the for-loop of mapNormalizedMatchToSegments from boundary number b on  *)
RECURSIVE MapNormalizedLoop(_, _, _, _, _, _)
MapNormalizedLoop(bs, b, normalizedMatchIdx, matchEnd, currentNormPos, acc) ==
  IF b > Len(bs) THEN acc
  ELSE
    LET boundary       == bs[b]
        segmentNormEnd == currentNormPos + Len(boundary.normalizedText)
        acc1 == IF acc.startSegmentIdx = -1 /\ normalizedMatchIdx >= currentNormPos
                   /\ normalizedMatchIdx < segmentNormEnd
                THEN [acc EXCEPT !.startSegmentIdx = boundary.segmentIdx,
                                 !.startCharOffset =
                                    Min(normalizedMatchIdx - currentNormPos,
                                        Len(boundary.text) - 1)]
                ELSE acc
    IN IF matchEnd > currentNormPos /\ matchEnd <= segmentNormEnd
       THEN [acc1 EXCEPT !.endSegmentIdx = boundary.segmentIdx,
                         !.endCharOffset = Min(matchEnd - currentNormPos,
                                               Len(boundary.text))]
       ELSE MapNormalizedLoop(bs, b + 1, normalizedMatchIdx, matchEnd,
                              segmentNormEnd + 1, acc1)

(* mapNormalizedMatchToSegments without the joining space between segments *)
mapNormalizedMatchToSegmentsNoSpace(normalizedMatchIdx, normalizedTargetText, ix) ==
  LET bs == ix.segmentBoundaries
      normStart(b) == Len(JoinSpace([k \in 1..(b - 1) |-> bs[k].normalizedText]))
                      - Max(0, b - 2)
      starts == {b \in 1..Len(bs) :
                   /\ normalizedMatchIdx >= normStart(b)
                   /\ normalizedMatchIdx < normStart(b) + Len(bs[b].normalizedText)}
      matchEnd == normalizedMatchIdx + Len(normalizedTargetText)
      ends == {b \in 1..Len(bs) :
                 matchEnd > normStart(b) /\ matchEnd <= normStart(b) + Len(bs[b].normalizedText)}
  IN IF starts = {} \/ ends = {} THEN Null
     ELSE LET sb == CHOOSE b \in starts : \A c \in starts : b <= c
              eb == CHOOSE b \in ends : \A c \in ends : b <= c
          IN [found           |-> TRUE,
              startSegmentIdx |-> bs[sb].segmentIdx,
              endSegmentIdx   |-> bs[eb].segmentIdx,
              startCharOffset |-> Min(normalizedMatchIdx - normStart(sb), Len(bs[sb].text) - 1),
              endCharOffset   |-> Min(matchEnd - normStart(eb), Len(bs[eb].text))]

mapNormalizedMatchToSegments(normalizedMatchIdx, normalizedTargetText, ix) ==
  MappedResult(MapNormalizedLoop(ix.segmentBoundaries, 1, normalizedMatchIdx,
                                 normalizedMatchIdx + Len(normalizedTargetText),
                                 0, NoSegments))

-----------------------------------------------------------------------------
(* quote-matcher: the cascade                                              *)

FUZZY_MATCH_THRESHOLD == Frac(85, 100)

DefaultMaxSegmentWindow == 30

TopCandidates == 15

DefaultOptions ==
  [startIdx         |-> 0,
   minSimilarity    |-> FUZZY_MATCH_THRESHOLD,
   maxSegmentWindow |-> DefaultMaxSegmentWindow]

(* normalizeForMatching(targetText).split(/\s+/).filter(w => w.length > 2) *)
TargetWords(targetText) ==
  SelectSeq(SplitWhitespace(normalizeForMatching(targetText)), LAMBDA w : Len(w) > 2)

(* index.wordIndex.get(word) || [] *)
Postings(ix, word) ==
  IF word \in DOMAIN ix.wordIndex THEN ix.wordIndex[word] ELSE <<>>

(* the segment indices in the order the two nested for-loops increment them *)
RECURSIVE VoteSequence(_, _, _)
VoteSequence(ix, words, startIdx) ==
  IF Len(words) = 0 THEN <<>>
  ELSE SelectSeq(Postings(ix, words[1]), LAMBDA segIdx : segIdx >= startIdx)
       \o VoteSequence(ix, Tail(words), startIdx)

(* segmentScores as its entries in insertion order, after the first n votes *)
RECURSIVE TallyVotes(_, _)
TallyVotes(votes, n) ==
  IF n = 0 THEN <<>>
  ELSE LET prev == TallyVotes(votes, n - 1)
           seen == {e \in 1..Len(prev) : prev[e].idx = votes[n]}
       IN IF seen = {} THEN Append(prev, [idx |-> votes[n], score |-> 1])
          ELSE [e \in 1..Len(prev) |->
                  IF e \in seen THEN [prev[e] EXCEPT !.score = @ + 1] ELSE prev[e]]

segmentScores(ix, targetText, startIdx) ==
  LET votes == VoteSequence(ix, TargetWords(targetText), startIdx)
  IN TallyVotes(votes, Len(votes))

(* entries.sort((a, b) => b[1] - a[1]): stable, by score descending *)
RECURSIVE SortByScore(_)
SortByScore(entries) ==
  IF Len(entries) <= 1 THEN entries
  ELSE LET rest == SortByScore(SubSeq(entries, 1, Len(entries) - 1))
           last == entries[Len(entries)]
           keep == Cardinality({e \in 1..Len(rest) : rest[e].score >= last.score})
       IN SubSeq(rest, 1, keep) \o <<last>> \o SubSeq(rest, keep + 1, Len(rest))

(* scoredSegments without the slice to the top candidates *)
scoredSegmentsUncut(ix, targetText, startIdx) ==
  SortByScore(segmentScores(ix, targetText, startIdx))

scoredSegments(ix, targetText, startIdx) ==
  LET sorted == SortByScore(segmentScores(ix, targetText, startIdx))
  IN SubSeq(sorted, 1, Min(TopCandidates, Len(sorted)))

(* the inner for-loop: the window [windowStart, i] grown up to windowEnd *)
RECURSIVE GrowWindow(_, _, _, _, _, _, _, _)
GrowWindow(t, targetText, windowStart, i, windowEnd, combinedSoFar, minSimilarity, confidence) ==
  IF i > windowEnd THEN Null
  ELSE
    LET combinedText == (IF i > windowStart THEN combinedSoFar \o <<" ">> ELSE combinedSoFar)
                        \o t[i + 1].text
        similarity == calculateNgramSimilarity(normalizeForMatching(targetText),
                                               normalizeForMatching(combinedText))
    IN IF FracGE(similarity, minSimilarity)
       THEN [found           |-> TRUE,
             startSegmentIdx |-> windowStart,
             endSegmentIdx   |-> i,
             startCharOffset |-> 0,
             endCharOffset   |-> Len(t[i + 1].text),
             matchStrategy   |-> "fuzzy-ngram",
             similarity      |-> similarity,
             confidence      |-> confidence]
       ELSE GrowWindow(t, targetText, windowStart, i + 1, windowEnd, combinedText,
                       minSimilarity, confidence)

(* VoteConfidence without the cap at 1.0 *)
VoteConfidenceUncapped(score, wordCount) == Frac(score, wordCount)

(* Math.min(1.0, score / targetWords.length) *)
VoteConfidence(score, wordCount) ==
  IF score >= wordCount THEN Frac(1, 1) ELSE Frac(score, wordCount)

(* the for-loop over scoredSegments from candidate number c on *)
RECURSIVE TryCandidates(_, _, _, _, _, _)
TryCandidates(t, targetText, candidates, c, minSimilarity, maxSegmentWindow) ==
  IF c > Len(candidates) THEN Null
  ELSE
    LET candidateIdx == candidates[c].idx
        windowStart  == Max(0, candidateIdx - 2)
        windowEnd    == Min(Len(t) - 1, candidateIdx + maxSegmentWindow)
        hit == GrowWindow(t, targetText, windowStart, windowStart, windowEnd, <<>>,
                          minSimilarity,
                          VoteConfidence(candidates[c].score, Len(TargetWords(targetText))))
    IN IF hit # Null THEN hit
       ELSE TryCandidates(t, targetText, candidates, c + 1, minSimilarity, maxSegmentWindow)

FuzzyMatch(t, targetText, ix, options) ==
  IF Len(TargetWords(targetText)) > 0
  THEN TryCandidates(t, targetText, scoredSegments(ix, targetText, options.startIdx), 1,
                     options.minSimilarity, options.maxSegmentWindow)
  ELSE Null

ExactMatch(targetText, ix) ==
  LET exactMatch == boyerMooreSearch(ix.fullTextSpace, targetText)
      result == IF exactMatch # -1
                THEN mapMatchToSegments(exactMatch, Len(targetText), ix) ELSE Null
  IN IF result # Null
     THEN [found           |-> TRUE,
           startSegmentIdx |-> result.startSegmentIdx,
           endSegmentIdx   |-> result.endSegmentIdx,
           startCharOffset |-> result.startCharOffset,
           endCharOffset   |-> result.endCharOffset,
           matchStrategy   |-> "exact",
           similarity      |-> Frac(1, 1),
           confidence      |-> Frac(1, 1)]
     ELSE Null

NormalizedMatch(targetText, ix) ==
  LET normalizedTarget == normalizeWhitespace(targetText)
      normalizedMatch  == boyerMooreSearch(ix.normalizedText, normalizedTarget)
      result == IF normalizedMatch # -1
                THEN mapNormalizedMatchToSegments(normalizedMatch, normalizedTarget, ix)
                ELSE Null
  IN IF result # Null
     THEN [found           |-> TRUE,
           startSegmentIdx |-> result.startSegmentIdx,
           endSegmentIdx   |-> result.endSegmentIdx,
           startCharOffset |-> result.startCharOffset,
           endCharOffset   |-> result.endCharOffset,
           matchStrategy   |-> "normalized",
           similarity      |-> Frac(95, 100),
           confidence      |-> Frac(95, 100)]
     ELSE Null

(* findTextInTranscript trying the normalized step before the exact one *)
findTextInTranscriptNormalizedFirst(t, targetText, ix, options) ==
  LET normalized == NormalizedMatch(targetText, ix)
  IN IF normalized # Null THEN normalized
     ELSE LET exact == ExactMatch(targetText, ix)
          IN IF exact # Null THEN exact
             ELSE FuzzyMatch(t, targetText, ix, options)

findTextInTranscript(t, targetText, ix, options) ==
  LET exact == ExactMatch(targetText, ix)
  IN IF exact # Null THEN exact
     ELSE LET normalized == NormalizedMatch(targetText, ix)
          IN IF normalized # Null THEN normalized
             ELSE FuzzyMatch(t, targetText, ix, options)

-----------------------------------------------------------------------------
(* timestamp-utils: "[MM:SS-MM:SS]" or "[HH:MM:SS-HH:MM:SS]"               *)

Digits == {"0", "1", "2", "3", "4", "5", "6", "7", "8", "9"}

DigitValue(c) ==
  CASE c = "0" -> 0 [] c = "1" -> 1 [] c = "2" -> 2 [] c = "3" -> 3 [] c = "4" -> 4
    [] c = "5" -> 5 [] c = "6" -> 6 [] c = "7" -> 7 [] c = "8" -> 8 [] c = "9" -> 9

(* the pieces of s between occurrences of the character sep *)
SplitAt(s, sep) ==
  LET F[i \in 0..Len(s)] ==
        IF i = 0 THEN << <<>> >>
        ELSE LET prev == F[i-1]
             IN IF s[i] = sep THEN Append(prev, <<>>)
                ELSE [prev EXCEPT ![Len(prev)] = Append(@, s[i])]
  IN F[Len(s)]

IsNumber(s) == Len(s) > 0 /\ \A i \in 1..Len(s) : s[i] \in Digits

RECURSIVE NumberValue(_)
NumberValue(s) ==
  IF Len(s) = 0 THEN 0
  ELSE 10 * NumberValue(SubSeq(s, 1, Len(s) - 1)) + DigitValue(s[Len(s)])

(* seconds of "MM:SS" or "HH:MM:SS", -1 when it is neither *)
ClockSeconds(s) ==
  LET parts == SplitAt(s, ":")
  IN IF Len(parts) \in {2, 3} /\ \A i \in 1..Len(parts) : IsNumber(parts[i])
     THEN IF Len(parts) = 2
          THEN 60 * NumberValue(parts[1]) + NumberValue(parts[2])
          ELSE 3600 * NumberValue(parts[1]) + 60 * NumberValue(parts[2])
               + NumberValue(parts[3])
     ELSE -1

NoRange == [ok |-> FALSE]

parseTimestampRange(timestamp) ==
  LET body  == SelectSeq(timestamp, LAMBDA c : c \notin {"[", "]"})
      sides == SplitAt(body, "-")
  IN IF Len(sides) = 2 /\ ClockSeconds(sides[1]) # -1 /\ ClockSeconds(sides[2]) # -1
     THEN [ok |-> TRUE, start |-> ClockSeconds(sides[1]), end |-> ClockSeconds(sides[2])]
     ELSE NoRange

-----------------------------------------------------------------------------
(* ai-processing: findExactQuotes                                          *)

(* segmentsInRange with strict comparisons *)
segmentsInRangeStrict(t, timestampStart, timestampEnd) ==
  SelectSeq([i \in 1..Len(t) |-> i - 1],
            LAMBDA i : t[i + 1].start < timestampEnd
                       /\ t[i + 1].start + t[i + 1].duration > timestampStart)

(* indices of the segments that overlap [timestampStart, timestampEnd], ascending *)
segmentsInRange(t, timestampStart, timestampEnd) ==
  SelectSeq([i \in 1..Len(t) |-> i - 1],
            LAMBDA i : t[i + 1].start <= timestampEnd
                       /\ t[i + 1].start + t[i + 1].duration >= timestampStart)

(* MatchHighlight carrying the texts of the matched segments *)
MatchHighlightSegmentText(t, quoteText, m) ==
  [start                |-> t[m.startSegmentIdx + 1].start,
   end                  |-> t[m.endSegmentIdx + 1].start + t[m.endSegmentIdx + 1].duration,
   text                 |-> JoinSpace([k \in 1..(m.endSegmentIdx - m.startSegmentIdx + 1) |->
                                         t[m.startSegmentIdx + k].text]),
   startSegmentIdx      |-> m.startSegmentIdx,
   endSegmentIdx        |-> m.endSegmentIdx,
   startCharOffset      |-> m.startCharOffset,
   endCharOffset        |-> m.endCharOffset,
   hasCompleteSentences |-> m.matchStrategy # "fuzzy-ngram",
   confidence           |-> m.confidence]

(* the highlight built from a matcher result *)
MatchHighlight(t, quoteText, m) ==
  [start                |-> t[m.startSegmentIdx + 1].start,
   end                  |-> t[m.endSegmentIdx + 1].start + t[m.endSegmentIdx + 1].duration,
   text                 |-> quoteText,
   startSegmentIdx      |-> m.startSegmentIdx,
   endSegmentIdx        |-> m.endSegmentIdx,
   startCharOffset      |-> m.startCharOffset,
   endCharOffset        |-> m.endCharOffset,
   hasCompleteSentences |-> m.matchStrategy # "fuzzy-ngram",
   confidence           |-> m.confidence]

(* FallbackHighlight measuring the first segment's text for endCharOffset *)
FallbackHighlightFirstLength(t, inRange) ==
  LET firstIdx == inRange[1]
      lastIdx  == inRange[Len(inRange)]
  IN [start                |-> t[firstIdx + 1].start,
      end                  |-> t[lastIdx + 1].start + t[lastIdx + 1].duration,
      text                 |-> JoinSpace([k \in 1..Len(inRange) |-> t[inRange[k] + 1].text]),
      startSegmentIdx      |-> firstIdx,
      endSegmentIdx        |-> lastIdx,
      startCharOffset      |-> 0,
      endCharOffset        |-> Len(t[firstIdx + 1].text),
      hasCompleteSentences |-> FALSE,
      confidence           |-> Frac(5, 10)]

(* the final fallback over the overlapping segments *)
FallbackHighlight(t, inRange) ==
  LET firstIdx == inRange[1]
      lastIdx  == inRange[Len(inRange)]
  IN [start                |-> t[firstIdx + 1].start,
      end                  |-> t[lastIdx + 1].start + t[lastIdx + 1].duration,
      text                 |-> JoinSpace([k \in 1..Len(inRange) |-> t[inRange[k] + 1].text]),
      startSegmentIdx      |-> firstIdx,
      endSegmentIdx        |-> lastIdx,
      startCharOffset      |-> 0,
      endCharOffset        |-> Len(t[lastIdx + 1].text),
      hasCompleteSentences |-> FALSE,
      confidence           |-> Frac(5, 10)]

(* what the callback of quotes.map returns, with the branch that returned it *)
(* Outcome whose highlight stops short of the end of its last segment *)
OutcomeWithoutDuration(via, highlight, m, inRange) ==
  [via       |-> via,
   highlight |-> IF highlight = Null THEN Null
                 ELSE [highlight EXCEPT !.end = highlight.end - 1],
   match     |-> m,
   inRange   |-> inRange]

Outcome(via, highlight, m, inRange) ==
  [via |-> via, highlight |-> highlight, match |-> m, inRange |-> inRange]

GlobalOptions ==
  [startIdx |-> 0, minSimilarity |-> Frac(80, 100), maxSegmentWindow |-> 20]

(* RangeOptions with the threshold lowered to 0.5 *)
RangeOptionsLenient(startSearchIdx, endSearchIdx) ==
  [startIdx         |-> Max(0, startSearchIdx - 2),
   minSimilarity    |-> Frac(50, 100),
   maxSegmentWindow |-> Min(20, endSearchIdx - startSearchIdx + 5)]

RangeOptions(startSearchIdx, endSearchIdx) ==
  [startIdx         |-> Max(0, startSearchIdx - 2),
   minSimilarity    |-> Frac(75, 100),
   maxSegmentWindow |-> Min(20, endSearchIdx - startSearchIdx + 5)]

(* ResolveInRange without the final fallback *)
ResolveInRangeNoFallback(t, quoteText, ix, range) ==
  LET inRange == segmentsInRange(t, range.start, range.end)
  IN IF Len(inRange) = 0 THEN Outcome("no-overlap", Null, Null, inRange)
     ELSE
       LET startSearchIdx == inRange[1]
           endSearchIdx   == inRange[Len(inRange)]
           rangeMatch == findTextInTranscript(t, quoteText, ix,
                                              RangeOptions(startSearchIdx, endSearchIdx))
       IN IF rangeMatch # Null /\ rangeMatch.startSegmentIdx <= endSearchIdx + 2
          THEN Outcome("range", MatchHighlight(t, quoteText, rangeMatch), rangeMatch, inRange)
          ELSE Outcome("fallback", Null, rangeMatch, inRange)

ResolveInRange(t, quoteText, ix, range) ==
  LET inRange == segmentsInRange(t, range.start, range.end)
  IN IF Len(inRange) = 0 THEN Outcome("no-overlap", Null, Null, inRange)
     ELSE
       LET startSearchIdx == inRange[1]
           endSearchIdx   == inRange[Len(inRange)]
           rangeMatch == findTextInTranscript(t, quoteText, ix,
                                              RangeOptions(startSearchIdx, endSearchIdx))
       IN IF rangeMatch # Null /\ rangeMatch.startSegmentIdx <= endSearchIdx + 2
          THEN Outcome("range", MatchHighlight(t, quoteText, rangeMatch), rangeMatch, inRange)
          ELSE Outcome("fallback", FallbackHighlight(t, inRange), rangeMatch, inRange)

(* ResolveQuote looking at the overlap before it runs the cascade *)
ResolveQuoteOverlapFirst(t, q, ix) ==
  LET timestampRange == IF Len(q.timestamp) > 0 THEN parseTimestampRange(q.timestamp)
                        ELSE NoRange
      quoteText == Trim(q.text)
  IN IF ~timestampRange.ok THEN Outcome("parse-error", Null, Null, <<>>)
     ELSE IF Len(quoteText) = 0 THEN Outcome("empty-quote", Null, Null, <<>>)
     ELSE IF Len(segmentsInRange(t, timestampRange.start, timestampRange.end)) = 0
     THEN Outcome("no-overlap", Null, Null, <<>>)
     ELSE LET m == findTextInTranscript(t, quoteText, ix, GlobalOptions)
          IN IF m # Null
             THEN Outcome("global", MatchHighlight(t, quoteText, m), m, <<>>)
             ELSE ResolveInRange(t, quoteText, ix, timestampRange)

ResolveQuote(t, q, ix) ==
  LET timestampRange == IF Len(q.timestamp) > 0 THEN parseTimestampRange(q.timestamp)
                        ELSE NoRange
      quoteText == Trim(q.text)
  IN IF ~timestampRange.ok THEN Outcome("parse-error", Null, Null, <<>>)
     ELSE IF Len(quoteText) = 0 THEN Outcome("empty-quote", Null, Null, <<>>)
     ELSE LET m == findTextInTranscript(t, quoteText, ix, GlobalOptions)
          IN IF m # Null
             THEN Outcome("global", MatchHighlight(t, quoteText, m), m, <<>>)
             ELSE ResolveInRange(t, quoteText, ix, timestampRange)

(* results of quotes.map(...), in the order of the quotes *)
QuoteOutcomes(t, qs, ix) == [k \in 1..Len(qs) |-> ResolveQuote(t, qs[k], ix)]

(* NonNullHighlights returning the kept highlights last-first *)
NonNullHighlightsReversed(results) ==
  LET kept == SelectSeq(results, LAMBDA r : r.highlight # Null)
  IN [k \in 1..Len(kept) |-> kept[Len(kept) + 1 - k].highlight]

(* results.filter(r => r !== null) *)
NonNullHighlights(results) ==
  LET kept == SelectSeq(results, LAMBDA r : r.highlight # Null)
  IN [k \in 1..Len(kept) |-> kept[k].highlight]

findExactQuotes(t, qs, ix) == NonNullHighlights(QuoteOutcomes(t, qs, ix))

-----------------------------------------------------------------------------
(* ai-processing: chunkTranscript                                          *)

DEFAULT_CHUNK_DURATION_SECONDS == 5 * 60

DEFAULT_CHUNK_OVERLAP_SECONDS == 45

(* segment.start + segment.duration *)
segmentEnd(segment) == segment.start + segment.duration

totalDuration(segments) == segmentEnd(segments[Len(segments)])

effectiveChunkDuration(chunkDurationSeconds) == Max(180, chunkDurationSeconds)

effectiveOverlap(chunkDurationSeconds, overlapSeconds) ==
  Min(Max(overlapSeconds, 0), effectiveChunkDuration(chunkDurationSeconds) \div 2)

step(chunkDurationSeconds, overlapSeconds) ==
  Max(60, effectiveChunkDuration(chunkDurationSeconds)
            - effectiveOverlap(chunkDurationSeconds, overlapSeconds))

(* the inner while that skips the segments ending at or before windowStart: *)
(* the first index from anchorIdx on whose segment ends later, else length  *)
AdvanceAnchor(segments, anchorIdx, windowStart) ==
  LET later == {i \in anchorIdx..(Len(segments) - 1) :
                  segmentEnd(segments[i + 1]) > windowStart}
  IN IF later = {} THEN Len(segments)
     ELSE CHOOSE i \in later : \A j \in later : i <= j

(* the inner while that collects chunkSegments: the index of the last       *)
(* segment pushed, starting from the anchor                                *)
LastChunkSegment(segments, anchorIdx, windowEndTarget) ==
  LET stops == {j \in anchorIdx..(Len(segments) - 1) :
                  \/ segmentEnd(segments[j + 1]) >= windowEndTarget
                  \/ j = Len(segments) - 1
                  \/ segments[j + 2].start > windowEndTarget}
  IN CHOOSE j \in stops : \A k \in stops : j <= k

(* one pushed chunk; id is the number in `chunk-${n}` *)
Chunk(n, segments, first, last) ==
  [id       |-> n,
   start    |-> segments[first + 1].start,
   end      |-> segmentEnd(segments[last + 1]),
   segments |-> SubSeq(segments, first + 1, last + 1)]

(* the tail chunk appended after the loop when the last chunk leaves more   *)
(* than 5 seconds uncovered                                                *)
WithTailChunk(segments, chunkDurationSeconds, chunks) ==
  IF Len(chunks) = 0 THEN chunks
  ELSE
    LET lastChunk == chunks[Len(chunks)]
        coverageGap == totalDuration(segments) - lastChunk.end
        tailStartTime == Max(segments[1].start,
                             totalDuration(segments)
                               - effectiveChunkDuration(chunkDurationSeconds))
        tailSegments == SelectSeq(segments, LAMBDA seg : segmentEnd(seg) >= tailStartTime)
    IN IF coverageGap > 5 /\ Len(tailSegments) > 0
          /\ segmentEnd(tailSegments[Len(tailSegments)]) > lastChunk.end + 1
       THEN Append(chunks, [id       |-> Len(chunks) + 1,
                            start    |-> tailSegments[1].start,
                            end      |-> segmentEnd(tailSegments[Len(tailSegments)]),
                            segments |-> tailSegments])
       ELSE chunks

-----------------------------------------------------------------------------
(* Inputs                                                                  *)

MaxSegs == 4        \* segments per transcript handed to findExactQuotes

MaxMatchSegs == 3   \* segments per transcript handed to findTextInTranscript

TextA == <<"a", "b", "c", " ", "d", "e", " ", "f">>

TextB == <<"A", "b", "c", ",", " ", "d">>

TextC == <<>>

SegPool == {TextA, TextB, TextC}

Layouts == {"gapped", "long-first"}

(* segment k starts at 10(k-1) seconds and lasts 5 seconds; in the layout   *)
(* "long-first" the first segment lasts over all later ones                *)
MakeTranscript(texts, layout) ==
  [k \in 1..Len(texts) |->
     [start    |-> 10 * (k - 1),
      duration |-> IF layout = "long-first" /\ k = 1 THEN 100 ELSE 5,
      text     |-> texts[k]]]

TranscriptsOver(pool, maxSegs, layouts) ==
  UNION {{MakeTranscript(texts, layout) : texts \in [1..n -> pool], layout \in layouts}
           : n \in 0..maxSegs}

Transcripts(maxSegs, layouts) == TranscriptsOver(SegPool, maxSegs, layouts)

(* a segment that says one word twice *)
TextD == <<"a", "b", "c", " ", "a", "b", "c">>

MatchSegPool == SegPool \cup {TextD}

QuoteTexts ==
  { <<"a", "b", "c", " ", "d", " ", "e">>,
    <<"x", "y", "z">>,
    <<" ">>,
    <<" ", "d", "e", " ", "f", " ">>,
    <<"a", "b", "c", " ", "d">>,
    <<"f", " ", "a", "b", "c">>,
    <<"a", "b", "c", " ", "d", "e", "f">>,
    <<"a", "b", "c", "\t", "d", "e">>,
    <<"f", " ", "A", "b", "c", ",">>,
    <<"A", "B", "C", " ", "D", "E", " ", "F">> }

Timestamps ==
  { <<"[", "0", "0", ":", "0", "5", "-", "0", "0", ":", "0", "6", "]">>,
    <<"[", "0", "0", ":", "1", "2", "-", "0", "0", ":", "2", "2", "]">>,
    <<"[", "0", "0", ":", "0", "7", "-", "0", "0", ":", "0", "8", "]">>,
    <<"[", "0", "0", ":", "0", "0", ":", "3", "0", "-",
           "0", "0", ":", "0", "0", ":", "3", "1", "]">>,
    <<"s", "o", "o", "n">>,
    <<>> }

Quotes == {[timestamp |-> ts, text |-> tx] : ts \in Timestamps, tx \in QuoteTexts}

(* a text cut out of fullText: starts in segment i, ends in segment i+1 *)
SpanningTargets(ix) ==
  LET bs == ix.segmentBoundaries
  IN UNION {{[text  |-> SubSeq(ix.fullTextSpace, a + 1, e),
              seg   |-> bs[i].segmentIdx,
              start |-> a]
               : a \in bs[i].startPos..(bs[i].endPos - 1),
                 e \in (bs[i + 1].startPos + 1)..bs[i + 1].endPos}
              : i \in 1..(Len(bs) - 1)}

TargetTexts ==
  QuoteTexts \cup
  { <<"a", "b", "c", " ", "a", "b", "c">>,
    <<"A", "b", "c", " ", "d">>,
    <<"d", "e", ",", " ", "f">>,
    <<"A", "b", "c", " ", "a", "b", "c">>,
    <<>> }

(* the options findTextInTranscript is called with: none, the global pass  *)
(* of findExactQuotes, a timestamp-constrained pass                        *)
MatchOptions == {DefaultOptions, GlobalOptions, RangeOptions(3, 3)}

Targets(ix) ==
  SpanningTargets(ix) \cup {[text |-> tx, seg |-> -1, start |-> -1] : tx \in TargetTexts}

MaxBatchSegs == 2   \* segments per transcript handed to a batch of quotes

MaxQuotes == 3      \* quotes per call of findExactQuotes

(* one quote per way a callback can end: found in the text, unparseable      *)
(* timestamp, absent text over an overlapping range, absent text and no     *)
(* overlapping segment                                                      *)
BatchQuotes ==
  { [timestamp |-> <<"[", "0", "0", ":", "0", "5", "-", "0", "0", ":", "0", "6", "]">>,
     text      |-> <<"a", "b", "c", " ", "d">>],
    [timestamp |-> <<"s", "o", "o", "n">>,
     text      |-> <<"a", "b", "c", " ", "d">>],
    [timestamp |-> <<"[", "0", "0", ":", "1", "2", "-", "0", "0", ":", "2", "2", "]">>,
     text      |-> <<"x", "y", "z">>],
    [timestamp |-> <<"[", "0", "0", ":", "0", "0", ":", "3", "0", "-",
                          "0", "0", ":", "0", "0", ":", "3", "1", "]">>,
     text      |-> <<"x", "y", "z">>] }

QuoteLists == UNION {[1..n -> BatchQuotes] : n \in 0..MaxQuotes}

MaxLookupSegs == 2  \* segments per transcript that is looked up repeatedly

(* texts looked up after indexing: found exactly, found normalized, found   *)
(* by n-grams, not found                                                   *)
LookupTexts ==
  { <<"a", "b", "c", " ", "d">>,
    <<"a", "b", "c", "\t", "d", "e">>,
    <<"a", "b", "c", " ", "d", "e", "f">>,
    <<"x", "y", "z">> }

LookupSpans == {[start |-> s, length |-> n] : s \in {0, 7}, n \in {1, 3}}

MaxTextLen == 5     \* characters of a text handed to boyerMooreSearch

MaxPatternLen == 3  \* characters of a pattern handed to boyerMooreSearch

SearchAlphabet == {"a", "b"}

Strings(maxLen) == UNION {[1..n -> SearchAlphabet] : n \in 0..maxLen}

MaxScenarioSegs == 2  \* segments per transcript built from the scenario segments

(* "The quick brown fox jumps over the lazy dog near the riverbank at dawn" *)
FoxSegment ==
  <<"T", "h", "e", " ", "q", "u", "i", "c", "k", " ", "b", "r", "o", "w",
    "n", " ", "f", "o", "x", " ", "j", "u", "m", "p", "s", " ", "o", "v",
    "e", "r", " ", "t", "h", "e", " ", "l", "a", "z", "y", " ", "d", "o",
    "g", " ", "n", "e", "a", "r", " ", "t", "h", "e", " ", "r", "i", "v",
    "e", "r", "b", "a", "n", "k", " ", "a", "t", " ", "d", "a", "w", "n">>

(* "Welcome to the show." *)
WelcomeSegment ==
  <<"W", "e", "l", "c", "o", "m", "e", " ", "t", "o", " ", "t", "h", "e",
    " ", "s", "h", "o", "w", ".">>

(* "Today we discuss AI." *)
TodaySegment ==
  <<"T", "o", "d", "a", "y", " ", "w", "e", " ", "d", "i", "s", "c", "u",
    "s", "s", " ", "A", "I", ".">>

(* "Hello, world! This is great." *)
HelloSegment ==
  <<"H", "e", "l", "l", "o", ",", " ", "w", "o", "r", "l", "d", "!", " ",
    "T", "h", "i", "s", " ", "i", "s", " ", "g", "r", "e", "a", "t", ".">>

(* "quick brown fox jumping over lazy dog by the river" *)
FoxQuery ==
  <<"q", "u", "i", "c", "k", " ", "b", "r", "o", "w", "n", " ", "f", "o",
    "x", " ", "j", "u", "m", "p", "i", "n", "g", " ", "o", "v", "e", "r",
    " ", "l", "a", "z", "y", " ", "d", "o", "g", " ", "b", "y", " ", "t",
    "h", "e", " ", "r", "i", "v", "e", "r">>

(* "today we discuss ai" *)
TodayQuery ==
  <<"t", "o", "d", "a", "y", " ", "w", "e", " ", "d", "i", "s", "c", "u",
    "s", "s", " ", "a", "i">>

(* "hello world this is great" *)
HelloQuery ==
  <<"h", "e", "l", "l", "o", " ", "w", "o", "r", "l", "d", " ", "t", "h",
    "i", "s", " ", "i", "s", " ", "g", "r", "e", "a", "t">>

ScenarioSegments == {FoxSegment, WelcomeSegment, TodaySegment, HelloSegment}

ScenarioTranscripts ==
  TranscriptsOver(ScenarioSegments, MaxScenarioSegs, {"gapped"}) \ {<<>>}

ScenarioQueries == {FoxQuery, TodayQuery, HelloQuery}

(* the thresholds in use: the default, the global pass, the constrained    *)
(* pass, and the lowest the callers relax to                               *)
ScenarioOptions ==
  MatchOptions \cup {[startIdx |-> 0, minSimilarity |-> Frac(70, 100), maxSegmentWindow |-> 20]}

MaxMapSegs == 3     \* segments per transcript whose spans are mapped back

MaxFuzzySegs == 3   \* segments per short transcript handed to the fuzzy matcher

MaxDecoys == 16     \* leading one-word segments of a long transcript

TextWord == <<"a", "b", "c">>

TextNear == <<"a", "b", "c", " ", "x", "y">>

TextFull == <<"a", "b", "c", " ", "x", "y", "z">>

(* the letters of TextNear with the blank one place earlier *)
TextSplit == <<"a", "b", " ", "c", "x", "y">>

FuzzySegPool == {TextWord, TextNear, TextFull, TextSplit, TextC}

(* what follows the one-word segments of a long transcript *)
FuzzyTails ==
  { <<>>, <<TextNear>>, <<TextC, TextC, TextNear>>, <<TextC, TextC, TextFull>> }

(* short transcripts over the pool, and long ones: MaxDecoys - 2 to         *)
(* MaxDecoys segments holding one word of the query, then a tail            *)
FuzzyTranscripts ==
  TranscriptsOver(FuzzySegPool, MaxFuzzySegs, {"gapped"})
    \cup {MakeTranscript([k \in 1..d |-> TextWord] \o tail, "gapped") :
            d \in (MaxDecoys - 2)..MaxDecoys, tail \in FuzzyTails}

(* queries that differ from the transcript in case, so that only the fuzzy  *)
(* step can find them: one token, two tokens, no token longer than 2        *)
FuzzyQueries ==
  { <<"A", "b", "c", " ", "x", "y">>,
    <<"A", "b", "c", " ", "x", "y", "z">>,
    <<"X", "y">> }

FuzzyOptions ==
  { RangeOptions(3, 3),
    [startIdx |-> 0, minSimilarity |-> Frac(75, 100), maxSegmentWindow |-> 30],
    [startIdx |-> 0, minSimilarity |-> FUZZY_MATCH_THRESHOLD, maxSegmentWindow |-> 1] }

MaxSimLen == 4      \* characters of a string handed to calculateNgramSimilarity

SimAlphabet == {"a", "b", " "}

SimStrings == UNION {[1..n -> SimAlphabet] : n \in 0..MaxSimLen}

MaxNormMapSegs == 3 \* segments per transcript whose normalized spans are mapped back

MaxChunkSegs == 3   \* segments per transcript handed to chunkTranscript

MaxChunks == 8      \* chunks pushed before the model stops following the loop

(* seconds a segment may last: shorter than every step, longer than the     *)
(* smallest step, longer than every step                                   *)
SegmentDurations == {20, 100, 400}

(* back-to-back segments with the given durations *)
RECURSIVE StartOf(_, _)
StartOf(durations, k) ==
  IF k = 1 THEN 0 ELSE StartOf(durations, k - 1) + durations[k - 1]

ChunkTranscripts ==
  UNION {{[k \in 1..n |-> [start    |-> StartOf(durations, k),
                            duration |-> durations[k],
                            text     |-> TextC]]
            : durations \in [1..n -> SegmentDurations]}
           : n \in 0..MaxChunkSegs}

ChunkDurations == {0, DEFAULT_CHUNK_DURATION_SECONDS}

ChunkOverlaps == {-1, DEFAULT_CHUNK_OVERLAP_SECONDS, 1000}

-----------------------------------------------------------------------------
(* State machine                                                           *)

NoTarget == [text |-> <<>>, seg |-> -1, start |-> -1]

NoCall == [fn |-> "none"]

InitOver(ts) ==
  /\ transcript \in ts
  /\ index = EmptyIndex
  /\ phase = "start"
  /\ quotes = <<>>
  /\ outcomes = <<>>
  /\ highlights = <<>>
  /\ target = NoTarget
  /\ opts = DefaultOptions
  /\ match = Null
  /\ call = NoCall
  /\ ret = Null

Init == InitOver(Transcripts(MaxSegs, Layouts))

MatchInit == InitOver(TranscriptsOver(MatchSegPool, MaxMatchSegs, {"gapped"}))

BuildIndex ==
  /\ phase = "start"
  /\ index' = buildTranscriptIndex(transcript)
  /\ phase' = "indexed"
  /\ UNCHANGED <<transcript, quotes, outcomes, highlights, target, opts, match, call, ret>>

FindExactQuotes ==
  /\ phase = "indexed"
  /\ \E q \in Quotes :
       LET results == QuoteOutcomes(transcript, <<q>>, index)
       IN /\ quotes' = <<q>>
          /\ outcomes' = results
          /\ highlights' = NonNullHighlights(results)
  /\ phase' = "resolved"
  /\ UNCHANGED <<transcript, index, target, opts, match, call, ret>>

FindText ==
  /\ phase = "indexed"
  /\ \E tg \in Targets(index), o \in MatchOptions :
       /\ target' = tg
       /\ opts' = o
       /\ match' = findTextInTranscript(transcript, tg.text, index, o)
  /\ phase' = "matched"
  /\ UNCHANGED <<transcript, index, quotes, outcomes, highlights, call, ret>>

Next == BuildIndex \/ FindExactQuotes

Spec == Init /\ [][Next]_vars

MatchNext == BuildIndex \/ FindText

MatchSpec == MatchInit /\ [][MatchNext]_vars

(* ---- findExactQuotes on a list of quotes, one callback at a time ---- *)

(* the slot of a callback that has not returned yet *)
Pending == [via |-> "pending"]

BatchInit == InitOver(Transcripts(MaxBatchSegs, {"gapped"}))

(* quotes.map(async (quote) => ...): one promise per quote *)
StartBatch ==
  /\ phase = "indexed"
  /\ \E qs \in QuoteLists :
       /\ quotes' = qs
       /\ outcomes' = [k \in 1..Len(qs) |-> Pending]
  /\ phase' = "resolving"
  /\ UNCHANGED <<transcript, index, highlights, target, opts, match, call, ret>>

(* one callback runs to its return; the callbacks share no state, so the   *)
(* model lets them settle in any order, the runtime's order included       *)
RunCallback ==
  /\ phase = "resolving"
  /\ \E k \in 1..Len(quotes) :
       /\ outcomes[k] = Pending
       /\ outcomes' = [outcomes EXCEPT ![k] = ResolveQuote(transcript, quotes[k], index)]
  /\ UNCHANGED <<transcript, index, phase, quotes, highlights, target, opts, match,
                 call, ret>>

(* await Promise.all(quotePromises), then results.filter(r => r !== null) *)
AwaitAll ==
  /\ phase = "resolving"
  /\ \A k \in 1..Len(quotes) : outcomes[k] # Pending
  /\ highlights' = NonNullHighlights(outcomes)
  /\ phase' = "resolved"
  /\ UNCHANGED <<transcript, index, quotes, outcomes, target, opts, match, call, ret>>

BatchNext == BuildIndex \/ StartBatch \/ RunCallback \/ AwaitAll

BatchSpec == BatchInit /\ [][BatchNext]_vars

(* ---- any sequence of lookups against one index ---- *)

LookupInit == InitOver(Transcripts(MaxLookupSegs, {"gapped"}))

(* LookupText with a fuzzy pass that empties the posting lists it has read *)
LookupTextConsumingPostings ==
  /\ phase = "indexed"
  /\ \E tx \in LookupTexts :
       /\ target' = [text |-> tx, seg |-> -1, start |-> -1]
       /\ match' = findTextInTranscript(transcript, tx, index, opts)
       /\ index' = IF match'.found /\ match'.matchStrategy = "fuzzy-ngram"
                   THEN [index EXCEPT !.wordIndex = <<>>] ELSE index
  /\ UNCHANGED <<transcript, phase, quotes, outcomes, highlights, opts, call, ret>>

LookupText ==
  /\ phase = "indexed"
  /\ \E tx \in LookupTexts :
       /\ target' = [text |-> tx, seg |-> -1, start |-> -1]
       /\ match' = findTextInTranscript(transcript, tx, index, opts)
  /\ UNCHANGED <<transcript, index, phase, quotes, outcomes, highlights, opts, call, ret>>

LookupQuotes ==
  /\ phase = "indexed"
  /\ \E q \in BatchQuotes :
       LET results == QuoteOutcomes(transcript, <<q>>, index)
       IN /\ quotes' = <<q>>
          /\ outcomes' = results
          /\ highlights' = NonNullHighlights(results)
  /\ UNCHANGED <<transcript, index, phase, target, opts, match, call, ret>>

LookupSpan ==
  /\ phase = "indexed"
  /\ \E sp \in LookupSpans :
       /\ call' = [fn |-> "mapMatchToSegments", matchStart |-> sp.start,
                   matchLength |-> sp.length]
       /\ ret' = mapMatchToSegments(sp.start, sp.length, index)
  /\ UNCHANGED <<transcript, index, phase, quotes, outcomes, highlights, target, opts,
                 match>>

LookupNormalizedSpan ==
  /\ phase = "indexed"
  /\ \E sp \in LookupSpans :
       LET normalizedTargetText ==
             SubSeq(index.normalizedText, sp.start + 1,
                    Min(Len(index.normalizedText), sp.start + sp.length))
       IN /\ call' = [fn |-> "mapNormalizedMatchToSegments",
                      normalizedMatchIdx |-> sp.start,
                      normalizedTargetText |-> normalizedTargetText]
          /\ ret' = mapNormalizedMatchToSegments(sp.start, normalizedTargetText, index)
  /\ UNCHANGED <<transcript, index, phase, quotes, outcomes, highlights, target, opts,
                 match>>

LookupNext ==
  BuildIndex \/ LookupText \/ LookupQuotes \/ LookupSpan \/ LookupNormalizedSpan

LookupSpec == LookupInit /\ [][LookupNext]_vars

(* ---- boyerMooreSearch, one iteration of its outer loop at a time ---- *)

SearchInit == InitOver({<<>>})

(* a returned number *)
Returned(n) == [found |-> TRUE, value |-> n]

(* the call, its two early returns and the set-up of the scan *)
StartSearch ==
  /\ phase = "start"
  /\ \E text \in Strings(MaxTextLen), pattern \in Strings(MaxPatternLen) :
       /\ call' = [fn |-> "boyerMooreSearch", text |-> text, pattern |-> pattern,
                   i |-> Len(pattern) - 1]
       /\ IF Len(pattern) = 0 THEN ret' = Returned(0) /\ phase' = "searched"
          ELSE IF Len(pattern) > Len(text) THEN ret' = Returned(-1) /\ phase' = "searched"
          ELSE ret' = ret /\ phase' = "searching"
  /\ UNCHANGED <<transcript, index, quotes, outcomes, highlights, target, opts, match>>

(* one test of while (i < text.length) and, when it holds, one iteration *)
ScanStep ==
  /\ phase = "searching"
  /\ IF call.i >= Len(call.text)
     THEN ret' = Returned(-1) /\ phase' = "searched" /\ call' = call
     ELSE LET hit == BMCompare(call.text, call.pattern, Len(call.pattern) - 1, call.i)
          IN IF hit # -1
             THEN ret' = Returned(hit) /\ phase' = "searched" /\ call' = call
             ELSE /\ call' = [call EXCEPT
                                !.i = @ + BadCharSkip(call.pattern, call.text[call.i + 1])]
                  /\ UNCHANGED <<ret, phase>>
  /\ UNCHANGED <<transcript, index, quotes, outcomes, highlights, target, opts, match>>

SearchNext == StartSearch \/ ScanStep

(* the loop is synchronous: once entered it keeps running *)
SearchSpec == SearchInit /\ [][SearchNext]_vars /\ WF_vars(ScanStep)

(* ---- findTextInTranscript on the scenario transcripts ---- *)

ScenarioInit == InitOver(ScenarioTranscripts)

FindScenarioText ==
  /\ phase = "indexed"
  /\ \E tx \in ScenarioQueries, o \in ScenarioOptions :
       /\ target' = [text |-> tx, seg |-> -1, start |-> -1]
       /\ opts' = o
       /\ match' = findTextInTranscript(transcript, tx, index, o)
  /\ phase' = "matched"
  /\ UNCHANGED <<transcript, index, quotes, outcomes, highlights, call, ret>>

ScenarioNext == BuildIndex \/ FindScenarioText

ScenarioSpec == ScenarioInit /\ [][ScenarioNext]_vars

(* ---- mapMatchToSegments on the spans of fullText ---- *)

MapInit == InitOver(Transcripts(MaxMapSegs, {"gapped"}))

(* a span of fullText, possibly empty, possibly running one past its end *)
MapMatch ==
  /\ phase = "indexed"
  /\ \E matchStart \in 0..Len(index.fullTextSpace) :
       \E matchLength \in 0..(Len(index.fullTextSpace) + 1 - matchStart) :
         /\ call' = [fn |-> "mapMatchToSegments", matchStart |-> matchStart,
                     matchLength |-> matchLength]
         /\ ret' = mapMatchToSegments(matchStart, matchLength, index)
  /\ phase' = "mapped"
  /\ UNCHANGED <<transcript, index, quotes, outcomes, highlights, target, opts, match>>

MapNext == BuildIndex \/ MapMatch

MapSpec == MapInit /\ [][MapNext]_vars

(* ---- findTextInTranscript on queries only the fuzzy step can find ---- *)

FuzzyInit == InitOver(FuzzyTranscripts)

FindFuzzyText ==
  /\ phase = "indexed"
  /\ \E tx \in FuzzyQueries, o \in FuzzyOptions :
       /\ target' = [text |-> tx, seg |-> -1, start |-> -1]
       /\ opts' = o
       /\ match' = findTextInTranscript(transcript, tx, index, o)
  /\ phase' = "matched"
  /\ UNCHANGED <<transcript, index, quotes, outcomes, highlights, call, ret>>

FuzzyNext == BuildIndex \/ FindFuzzyText

FuzzySpec == FuzzyInit /\ [][FuzzyNext]_vars

(* ---- calculateNgramSimilarity on pairs of short strings ---- *)

SimilarityInit == InitOver({<<>>})

ScoreSimilarity ==
  /\ phase = "start"
  /\ \E str1 \in SimStrings, str2 \in SimStrings :
       /\ call' = [fn |-> "calculateNgramSimilarity", str1 |-> str1, str2 |-> str2]
       /\ ret' = Returned(calculateNgramSimilarity(str1, str2))
  /\ phase' = "scored"
  /\ UNCHANGED <<transcript, index, quotes, outcomes, highlights, target, opts, match>>

SimilarityNext == ScoreSimilarity

SimilaritySpec == SimilarityInit /\ [][SimilarityNext]_vars

(* ---- mapNormalizedMatchToSegments on the spans of normalizedText ---- *)

NormMapInit == InitOver(Transcripts(MaxNormMapSegs, {"gapped"}))

(* a hit: a piece of normalizedText and the position it was found at *)
MapNormalizedMatch ==
  /\ phase = "indexed"
  /\ \E p \in 0..(Len(index.normalizedText) - 1) :
       \E len \in 1..(Len(index.normalizedText) - p) :
         LET normalizedTargetText == SubSeq(index.normalizedText, p + 1, p + len)
         IN /\ call' = [fn |-> "mapNormalizedMatchToSegments",
                        normalizedMatchIdx |-> p,
                        normalizedTargetText |-> normalizedTargetText]
            /\ ret' = mapNormalizedMatchToSegments(p, normalizedTargetText, index)
  /\ phase' = "normalized-mapped"
  /\ UNCHANGED <<transcript, index, quotes, outcomes, highlights, target, opts, match>>

NormMapNext == BuildIndex \/ MapNormalizedMatch

NormMapSpec == NormMapInit /\ [][NormMapNext]_vars

(* ---- chunkTranscript, one iteration of the outer loop per step ---- *)

ChunkInit == InitOver(ChunkTranscripts)

(* the call, the early return for no segments and the set-up of the loop *)
StartChunking ==
  /\ phase = "start"
  /\ \E chunkDurationSeconds \in ChunkDurations, overlapSeconds \in ChunkOverlaps :
       call' = [fn                   |-> "chunkTranscript",
                chunkDurationSeconds |-> chunkDurationSeconds,
                overlapSeconds       |-> overlapSeconds,
                windowStart          |-> IF Len(transcript) = 0 THEN 0
                                         ELSE transcript[1].start,
                anchorIdx            |-> 0,
                chunks               |-> <<>>]
  /\ IF Len(transcript) = 0
     THEN ret' = Returned(<<>>) /\ phase' = "chunked"
     ELSE ret' = ret /\ phase' = "chunking"
  /\ UNCHANGED <<transcript, index, quotes, outcomes, highlights, target, opts, match>>

(* the outer loop is entered once more and does not break *)
LoopContinues ==
  /\ call.windowStart < totalDuration(transcript)
  /\ call.anchorIdx < Len(transcript)
  /\ AdvanceAnchor(transcript, call.anchorIdx, call.windowStart) < Len(transcript)

(* one iteration of the outer loop that pushes a chunk *)
ChunkStep ==
  /\ phase = "chunking"
  /\ LoopContinues
  /\ Len(call.chunks) < MaxChunks
  /\ LET anchorIdx == AdvanceAnchor(transcript, call.anchorIdx, call.windowStart)
         windowEndTarget == call.windowStart
                              + effectiveChunkDuration(call.chunkDurationSeconds)
         last == LastChunkSegment(transcript, anchorIdx, windowEndTarget)
         chunk == Chunk(Len(call.chunks) + 1, transcript, anchorIdx, last)
     IN call' = [call EXCEPT
                   !.anchorIdx = anchorIdx,
                   !.chunks = Append(@, chunk),
                   !.windowStart = chunk.start
                                     + step(call.chunkDurationSeconds, call.overlapSeconds)]
  /\ UNCHANGED <<transcript, index, phase, quotes, outcomes, highlights, target, opts,
                 match, ret>>

(* the loop ends, the tail chunk is appended if needed, the chunks are returned *)
ChunkFinish ==
  /\ phase = "chunking"
  /\ ~LoopContinues
  /\ ret' = Returned(WithTailChunk(transcript, call.chunkDurationSeconds, call.chunks))
  /\ phase' = "chunked"
  /\ UNCHANGED <<transcript, index, quotes, outcomes, highlights, target, opts, match, call>>

ChunkNext == StartChunking \/ ChunkStep \/ ChunkFinish

(* the function is synchronous: once called it runs until it returns *)
ChunkSpec == ChunkInit /\ [][ChunkNext]_vars /\ WF_vars(ChunkStep) /\ WF_vars(ChunkFinish)

-----------------------------------------------------------------------------
(* Vocabulary of the properties                                            *)

Resolved == phase = "resolved"

Matched == phase = "matched"

TheQuote == quotes[1]

TheOutcome == outcomes[1]

TheHighlight == outcomes[1].highlight

QuoteRange == parseTimestampRange(TheQuote.timestamp)

BlankQuote == \A i \in 1..Len(TheQuote.text) : TheQuote.text[i] \in Whitespace

(* segment indices that overlap the quote's range, by the overlap rule *)
OverlapSet ==
  {i \in 0..(Len(transcript) - 1) :
     /\ transcript[i + 1].start <= QuoteRange.end
     /\ transcript[i + 1].start + transcript[i + 1].duration >= QuoteRange.start}

MinOf(S) == CHOOSE x \in S : \A y \in S : x <= y

MaxOf(S) == CHOOSE x \in S : \A y \in S : x >= y

SegText(i) == transcript[i + 1].text

(* pat occurs in text at 0-based position p *)
OccursAt(text, pat, p) ==
  p >= 0 /\ p + Len(pat) <= Len(text) /\ SubSeq(text, p + 1, p + Len(pat)) = pat

-----------------------------------------------------------------------------
(* C1 (as stated): with at least one segment, a parseable range and an      *)
(* overlapping segment, findExactQuotes returns a highlight for every      *)
(* quote string.                                                           *)
C1_AlwaysResolvesAnyQuote ==
  (Resolved /\ Len(transcript) >= 1 /\ QuoteRange.ok /\ OverlapSet # {})
    => (TheHighlight # Null /\ highlights = <<TheHighlight>>)

(* C1 (amended): with at least one segment, a parseable range, an           *)
(* overlapping segment and a quote that is not blank, findExactQuotes      *)
(* returns a highlight for the quote, also when the quote is absent from   *)
(* the transcript.                                                         *)
C1_AlwaysResolves ==
  (Resolved /\ Len(transcript) >= 1 /\ QuoteRange.ok /\ OverlapSet # {} /\ ~BlankQuote)
    => (TheHighlight # Null /\ highlights = <<TheHighlight>>)

(* an absent quote over an overlapping range came back as a highlight *)
C1_Witness ==
  /\ Resolved /\ QuoteRange.ok /\ OverlapSet # {} /\ ~BlankQuote
  /\ ~Includes(index.fullTextSpace, Trim(TheQuote.text))
  /\ TheOutcome.match = Null
  /\ highlights = <<TheHighlight>> /\ TheHighlight # Null

-----------------------------------------------------------------------------
(* the leftmost occurrence of the target in fullText is the one it was cut from *)
CutIsLeftmost ==
  \A p \in 0..(target.start - 1) : ~OccursAt(index.fullTextSpace, target.text, p)

(* C2 (as stated): a quote cut out of fullText from segment i into segment  *)
(* i+1 comes back as strategy exact, similarity 1.0, startSegmentIdx = i   *)
(* and endSegmentIdx = i+1.                                                *)
C2_ExactnessAnyOccurrence ==
  (Matched /\ target.seg >= 0)
    => /\ match # Null
       /\ match.matchStrategy = "exact"
       /\ match.similarity = Frac(1, 1)
       /\ match.startSegmentIdx = target.seg
       /\ match.endSegmentIdx = target.seg + 1

(* C2 (amended): a quote cut out of fullText from segment i into segment    *)
(* i+1 that does not occur earlier in fullText comes back as strategy      *)
(* exact, similarity 1.0, startSegmentIdx = i and endSegmentIdx = i+1.     *)
C2_Exactness ==
  (Matched /\ target.seg >= 0 /\ CutIsLeftmost)
    => /\ match # Null
       /\ match.matchStrategy = "exact"
       /\ match.similarity = Frac(1, 1)
       /\ match.startSegmentIdx = target.seg
       /\ match.endSegmentIdx = target.seg + 1

(* a two-segment cut whose first segment is not the first of the transcript *)
C2_Witness ==
  /\ Matched /\ target.seg >= 1 /\ CutIsLeftmost
  /\ match # Null /\ match.matchStrategy = "exact"
  /\ match.startSegmentIdx = target.seg /\ match.endSegmentIdx = target.seg + 1
  /\ match.startCharOffset > 0

-----------------------------------------------------------------------------
(* C3: every highlight of findExactQuotes has both offsets within the text  *)
(* of their segments, endSegmentIdx >= startSegmentIdx, and in a single    *)
(* segment startCharOffset < endCharOffset.                                *)
C3_BoundaryCorrectness ==
  (Resolved /\ TheHighlight # Null)
    => LET h == TheHighlight
       IN /\ h.startSegmentIdx \in 0..(Len(transcript) - 1)
          /\ h.endSegmentIdx \in 0..(Len(transcript) - 1)
          /\ 0 <= h.startCharOffset
          /\ h.startCharOffset <= Len(SegText(h.startSegmentIdx))
          /\ 0 <= h.endCharOffset
          /\ h.endCharOffset <= Len(SegText(h.endSegmentIdx))
          /\ h.endSegmentIdx >= h.startSegmentIdx
          /\ (h.startSegmentIdx = h.endSegmentIdx => h.startCharOffset < h.endCharOffset)

-----------------------------------------------------------------------------
(* C4: a quote whose normalized form (lowercase, punctuation stripped,      *)
(* whitespace collapsed) is not empty and occurs in normalizedText is      *)
(* found by the exact or the normalized matcher.                           *)
C4_NormalizedQueryFound ==
  (Matched /\ Len(normalizeForMatching(target.text)) > 0
           /\ Includes(index.normalizedText, normalizeForMatching(target.text)))
    => (match # Null /\ match.matchStrategy \in {"exact", "normalized"})

-----------------------------------------------------------------------------
(* the transcript text between (startSegmentIdx, startCharOffset) and       *)
(* (endSegmentIdx, endCharOffset)                                          *)
SpanText(h) ==
  IF h.startSegmentIdx = h.endSegmentIdx
  THEN SubSeq(SegText(h.startSegmentIdx), h.startCharOffset + 1, h.endCharOffset)
  ELSE JoinSpace(
         [k \in 1..(h.endSegmentIdx - h.startSegmentIdx + 1) |->
            LET i == h.startSegmentIdx + k - 1
            IN IF i = h.startSegmentIdx
               THEN SubSeq(SegText(i), h.startCharOffset + 1, Len(SegText(i)))
               ELSE IF i = h.endSegmentIdx THEN SubSeq(SegText(i), 1, h.endCharOffset)
               ELSE SegText(i)])

(* the texts of the overlapping segments, in index order *)
RECURSIVE TextsOf(_)
TextsOf(S) ==
  IF S = {} THEN <<>>
  ELSE <<SegText(MinOf(S))>> \o TextsOf(S \ {MinOf(S)})

(* C5 (as stated): the text of every highlight is the verbatim transcript   *)
(* text of its resolved span, whichever strategy produced it.              *)
C5_TextIsTranscriptText ==
  (Resolved /\ TheHighlight # Null) => TheHighlight.text = SpanText(TheHighlight)

(* C5 (amended): a highlight produced by a matcher (global cascade or       *)
(* timestamp-constrained pass) carries the caller's quote text, trimmed,   *)
(* which is the transcript text of the span when the strategy is exact;    *)
(* the timestamp fallback carries the texts of the overlapping segments    *)
(* joined by single spaces.                                                *)
C5_TextOfHighlight ==
  (Resolved /\ TheHighlight # Null)
    => /\ TheOutcome.via \in {"global", "range"}
            => /\ TheHighlight.text = Trim(TheQuote.text)
               /\ TheOutcome.match.matchStrategy = "exact"
                    => TheHighlight.text = SpanText(TheHighlight)
       /\ TheOutcome.via = "fallback"
            => TheHighlight.text = JoinSpace(TextsOf(OverlapSet))

(* a fuzzy match whose highlight text is the quote, not the transcript *)
C5_Witness ==
  /\ Resolved /\ TheHighlight # Null
  /\ TheOutcome.via = "global"
  /\ TheOutcome.match.matchStrategy = "fuzzy-ngram"
  /\ TheHighlight.text = Trim(TheQuote.text)
  /\ TheHighlight.text # SpanText(TheHighlight)

-----------------------------------------------------------------------------
(* C6: when the global cascade finds the quote, the highlight is the same   *)
(* for every parseable timestamp range, overlapping or not.                *)
C6_TimestampIndependent ==
  (Resolved /\ TheOutcome.via = "global")
    => \A ts \in Timestamps :
         parseTimestampRange(ts).ok
           => ResolveQuote(transcript, [TheQuote EXCEPT !.timestamp = ts], index).highlight
                = TheHighlight

(* the cascade matched a quote whose own range no segment overlaps *)
C6_Witness ==
  /\ Resolved /\ TheOutcome.via = "global" /\ TheHighlight # Null
  /\ OverlapSet = {}
  /\ \E ts \in Timestamps :
       /\ parseTimestampRange(ts).ok
       /\ segmentsInRange(transcript, parseTimestampRange(ts).start,
                          parseTimestampRange(ts).end) # <<>>

-----------------------------------------------------------------------------
(* C7: a highlight from the timestamp-constrained pass starts within        *)
(* [firstOverlap-2, lastOverlap+2].                                        *)
C7_RangePassBounded ==
  (Resolved /\ TheOutcome.via = "range")
    => /\ TheHighlight.startSegmentIdx >= MinOf(OverlapSet) - 2
       /\ TheHighlight.startSegmentIdx <= MaxOf(OverlapSet) + 2

-----------------------------------------------------------------------------
(* the fuzzy step ran: exact and normalized found nothing and the query has *)
(* a token longer than 2                                                   *)
FuzzyReached ==
  /\ Matched
  /\ match = Null \/ match.matchStrategy = "fuzzy-ngram"
  /\ Len(TargetWords(target.text)) > 0

SeqRange(q) == {q[k] : k \in 1..Len(q)}

(* distinct query tokens (length > 2) that are words of segment i *)
DistinctTokensIn(i) ==
  SeqRange(TargetWords(target.text))
    \cap SeqRange(SplitWhitespace(normalizeForMatching(SegText(i))))

(* C8: the vote tally of a candidate segment is the number of distinct      *)
(* query tokens the segment contains.                                      *)
C8_VotesCountDistinctTokens ==
  FuzzyReached
    => \A e \in SeqRange(segmentScores(index, target.text, 0)) :
         e.score = Cardinality(DistinctTokensIn(e.idx))

-----------------------------------------------------------------------------
(* C9: when neither the global cascade nor the timestamp-constrained pass   *)
(* gives a result and a segment overlaps the range, the highlight is the   *)
(* fallback over the overlapping segments.                                 *)
C9_Fallback ==
  (Resolved /\ QuoteRange.ok /\ ~BlankQuote /\ TheOutcome.via \notin {"global", "range"}
            /\ OverlapSet # {})
    => /\ TheHighlight # Null
       /\ TheHighlight.startSegmentIdx = MinOf(OverlapSet)
       /\ TheHighlight.endSegmentIdx = MaxOf(OverlapSet)
       /\ TheHighlight.startCharOffset = 0
       /\ TheHighlight.endCharOffset = Len(SegText(MaxOf(OverlapSet)))
       /\ TheHighlight.text = JoinSpace(TextsOf(OverlapSet))
       /\ 2 * TheHighlight.confidence.num = TheHighlight.confidence.den
       /\ TheHighlight.hasCompleteSentences = FALSE

(* a fallback over two overlapping segments with texts of different length *)
C9_Witness ==
  /\ Resolved /\ QuoteRange.ok /\ ~BlankQuote
  /\ TheOutcome.via = "fallback"
  /\ Cardinality(OverlapSet) >= 2
  /\ Len(SegText(MinOf(OverlapSet))) # Len(SegText(MaxOf(OverlapSet)))
  /\ TheHighlight.endCharOffset = Len(SegText(MaxOf(OverlapSet)))

-----------------------------------------------------------------------------
(* C10 (as stated): no highlight comes back for a quote exactly when its    *)
(* range does not parse, or the global cascade fails and no segment        *)
(* overlaps the range.                                                     *)
C10_DroppedOnlyOnParseOrNoOverlap ==
  Resolved
    => (highlights = <<>>
          <=> (~QuoteRange.ok \/ (TheOutcome.via # "global" /\ OverlapSet = {})))

(* C10 (amended): no highlight comes back for a quote exactly when its      *)
(* range does not parse, or its text is blank, or the global cascade fails *)
(* and no segment overlaps the range.                                      *)
C10_DroppedOnly ==
  Resolved
    => (highlights = <<>>
          <=> (~QuoteRange.ok \/ BlankQuote
                 \/ (TheOutcome.via # "global" /\ OverlapSet = {})))

(* a quote dropped for lack of overlap although its range parses *)
C10_Witness ==
  /\ Resolved /\ highlights = <<>>
  /\ QuoteRange.ok /\ ~BlankQuote /\ Len(transcript) >= 1
  /\ TheOutcome.via = "no-overlap" /\ OverlapSet = {}

-----------------------------------------------------------------------------
(* Batches of quotes                                                       *)

(* slots whose callback has returned *)
Settled == {k \in 1..Len(outcomes) : outcomes[k] # Pending}

(* slots whose callback returned a highlight *)
Kept == {k \in Settled : outcomes[k].highlight # Null}

(* C11: for a fixed transcript and index the result of a quote is the same  *)
(* whether it is resolved alone or among other quotes, in whatever order   *)
(* the callbacks settle; findExactQuotes on a list returns the per-quote   *)
(* results in the order of the input quotes with the dropped quotes        *)
(* removed.                                                                *)
C11_OrderIndependent ==
  (phase \in {"resolving", "resolved"}) =>
    /\ \A k \in Settled :
         findExactQuotes(transcript, <<quotes[k]>>, index)
           = (IF outcomes[k].highlight = Null THEN <<>> ELSE <<outcomes[k].highlight>>)
    /\ \A j \in Settled : \A k \in Settled :
         quotes[j] = quotes[k] => outcomes[j] = outcomes[k]
    /\ Resolved =>
         /\ Settled = 1..Len(quotes)
         /\ Len(highlights) = Cardinality(Kept)
         /\ \A k \in Kept :
              highlights[Cardinality({j \in Kept : j <= k})] = outcomes[k].highlight

(* a returned list with a dropped quote between two kept, different ones *)
C11_Witness ==
  /\ Resolved /\ Len(quotes) = 3
  /\ outcomes[1].highlight # Null /\ outcomes[2].highlight = Null
  /\ outcomes[3].highlight # Null /\ outcomes[1].highlight # outcomes[3].highlight
  /\ highlights = <<outcomes[1].highlight, outcomes[3].highlight>>

-----------------------------------------------------------------------------
(* C12: once buildTranscriptIndex has returned, no lookup                   *)
(* (findTextInTranscript, mapMatchToSegments, mapNormalizedMatchToSegments, *)
(* findExactQuotes) changes the transcript or any field of the index,      *)
(* whatever the sequence of lookups.                                       *)
C12_LookupsLeaveIndexAlone ==
  [][phase = "indexed" =>
       /\ transcript' = transcript
       /\ index'.fullTextSpace = index.fullTextSpace
       /\ index'.fullTextNewline = index.fullTextNewline
       /\ index'.normalizedText = index.normalizedText
       /\ index'.segmentBoundaries = index.segmentBoundaries
       /\ index'.wordIndex = index.wordIndex
       /\ index'.ngramIndex = index.ngramIndex]_vars

(* every kind of lookup has run against an index with text, and the index  *)
(* is still the one built from the transcript                              *)
C12_Witness ==
  /\ phase = "indexed" /\ Len(index.fullTextSpace) > 0
  /\ match # Null /\ match.matchStrategy = "fuzzy-ngram"
  /\ Len(highlights) > 0
  /\ ret # Null /\ call.fn = "mapNormalizedMatchToSegments"
  /\ index = buildTranscriptIndex(transcript)

-----------------------------------------------------------------------------
FracEq(a, b) == a.num * b.den = b.num * a.den

(* a fraction between 0 and 1 *)
UnitFrac(a) == a.den > 0 /\ a.num >= 0 /\ a.num <= a.den

(* the words of segment i as the index splits them *)
SegWords(i) == SplitWhitespace(normalizeForMatching(SegText(i)))

(* votes of segment i: one per query token and per occurrence of that      *)
(* token among the words of the segment                                    *)
RawVotes(i) ==
  LET words == TargetWords(target.text)
  IN Cardinality({kp \in (1..Len(words)) \X (1..Len(SegWords(i))) :
                    words[kp[1]] = SegWords(i)[kp[2]]})

(* the text of the segments first..last joined by single spaces *)
WindowText(first, last) == JoinSpace([k \in 1..(last - first + 1) |-> SegText(first + k - 1)])

(* C13: every non-null result of findTextInTranscript has found = true, a   *)
(* strategy among exact, normalized and fuzzy-ngram, similarity and        *)
(* confidence in [0,1]; exact gives 1.0 and 1.0; normalized gives 0.95 and *)
(* 0.95; fuzzy-ngram gives startCharOffset 0, endCharOffset = length of    *)
(* the last window segment's text, similarity = the score of the window    *)
(* (at least minSimilarity) and confidence = min(1, votes / query tokens). *)
C13_ResultShape ==
  (Matched /\ match # Null) =>
    /\ match.found = TRUE
    /\ match.matchStrategy \in {"exact", "normalized", "fuzzy-ngram"}
    /\ UnitFrac(match.similarity) /\ UnitFrac(match.confidence)
    /\ match.matchStrategy = "exact" =>
         FracEq(match.similarity, Frac(1, 1)) /\ FracEq(match.confidence, Frac(1, 1))
    /\ match.matchStrategy = "normalized" =>
         FracEq(match.similarity, Frac(95, 100)) /\ FracEq(match.confidence, Frac(95, 100))
    /\ match.matchStrategy = "fuzzy-ngram" =>
         /\ match.startCharOffset = 0
         /\ match.endCharOffset = Len(SegText(match.endSegmentIdx))
         /\ FracGE(match.similarity, opts.minSimilarity)
         /\ FracEq(match.similarity,
                   calculateNgramSimilarity(
                     normalizeForMatching(target.text),
                     normalizeForMatching(WindowText(match.startSegmentIdx,
                                                     match.endSegmentIdx))))
         /\ \E i \in opts.startIdx..(Len(transcript) - 1) :
              /\ RawVotes(i) > 0
              /\ Max(0, i - 2) = match.startSegmentIdx
              /\ FracEq(match.confidence,
                        IF RawVotes(i) >= Len(TargetWords(target.text)) THEN Frac(1, 1)
                        ELSE Frac(RawVotes(i), Len(TargetWords(target.text))))

(* a fuzzy result whose candidate has more votes than the query has tokens   *)
C13_Witness ==
  /\ Matched /\ match # Null /\ match.matchStrategy = "fuzzy-ngram"
  /\ \E i \in 0..(Len(transcript) - 1) :
       /\ Max(0, i - 2) = match.startSegmentIdx
       /\ RawVotes(i) > Len(TargetWords(target.text))
       /\ FracEq(match.confidence, Frac(1, 1))

-----------------------------------------------------------------------------
Searched == phase = "searched"

(* the leftmost position of pat in text, -1 when there is none *)
LeftmostOccurrence(text, pat) ==
  LET at == {p \in 0..Len(text) : OccursAt(text, pat, p)}
  IN IF at = {} THEN -1 ELSE MinOf(at)

(* C14: boyerMooreSearch terminates and returns the leftmost index at which *)
(* the pattern occurs in the text, or -1 when it does not occur; for the   *)
(* empty pattern it returns 0.                                             *)
C14_SearchFindsLeftmost ==
  /\ [](Searched =>
          /\ ret.value = LeftmostOccurrence(call.text, call.pattern)
          /\ ret.value = boyerMooreSearch(call.text, call.pattern)
          /\ Len(call.pattern) = 0 => ret.value = 0)
  /\ (phase = "searching" ~> Searched)

(* a pattern found after the scan has skipped forward, not at the start *)
C14_Witness ==
  /\ Searched /\ Len(call.pattern) >= 2
  /\ ret.value >= 1 /\ call.i = ret.value + Len(call.pattern) - 1

-----------------------------------------------------------------------------
Indexed == phase # "start"

(* C15: buildTranscriptIndex yields exactly one boundary per segment, in    *)
(* segment order, with segmentIdx the segment's position; the first        *)
(* startPos is 0, every endPos is startPos plus the length of the          *)
(* segment's text, every later startPos is the previous endPos plus 1,     *)
(* fullText[startPos, endPos) is the segment's text, and fullText is the   *)
(* segment texts joined by single spaces.                                  *)
C15_BoundariesPartitionFullText ==
  Indexed =>
    LET bs == index.segmentBoundaries
    IN /\ Len(bs) = Len(transcript)
       /\ \A k \in 1..Len(bs) :
            /\ bs[k].segmentIdx = k - 1
            /\ bs[k].startPos = (IF k = 1 THEN 0 ELSE bs[k - 1].endPos + 1)
            /\ bs[k].endPos = bs[k].startPos + Len(transcript[k].text)
            /\ SubSeq(index.fullTextSpace, bs[k].startPos + 1, bs[k].endPos)
                 = transcript[k].text
       /\ index.fullTextSpace = JoinSpace([k \in 1..Len(transcript) |-> transcript[k].text])

(* an index over three segments, the middle one without text *)
C15_Witness ==
  /\ Indexed /\ Len(transcript) = 3
  /\ Len(transcript[1].text) > 0 /\ Len(transcript[2].text) = 0
  /\ Len(transcript[3].text) > 0
  /\ index.segmentBoundaries[3].startPos = Len(transcript[1].text) + 2

-----------------------------------------------------------------------------
(* the transcript is exactly the segments with these texts, in this order *)
TranscriptTexts(texts) ==
  Len(transcript) = Len(texts) /\ \A k \in 1..Len(texts) : transcript[k].text = texts[k]

(* C16: on the one-segment transcript "The quick brown fox jumps over the   *)
(* lazy dog near the riverbank at dawn" the query "quick brown fox jumping *)
(* over lazy dog by the river" is found, with similarity >= 0.7, on that   *)
(* segment.                                                                *)
C16_FuzzyRecall ==
  (Matched /\ TranscriptTexts(<<FoxSegment>>) /\ target.text = FoxQuery) =>
    /\ match # Null
    /\ FracGE(match.similarity, Frac(70, 100))
    /\ match.startSegmentIdx = 0 /\ match.endSegmentIdx = 0

-----------------------------------------------------------------------------
(* C17: on the transcript ["Welcome to the show.", "Today we discuss AI."]  *)
(* the quote "today we discuss ai" resolves with strategy normalized and   *)
(* startSegmentIdx = endSegmentIdx = 1; on the segment "Hello, world! This *)
(* is great." the query "hello world this is great" resolves with strategy *)
(* exact or normalized and similarity >= 0.95.                             *)
C17_NormalizedScenarios ==
  /\ (Matched /\ TranscriptTexts(<<WelcomeSegment, TodaySegment>>)
        /\ target.text = TodayQuery) =>
       /\ match # Null /\ match.matchStrategy = "normalized"
       /\ match.startSegmentIdx = 1 /\ match.endSegmentIdx = 1
  /\ (Matched /\ TranscriptTexts(<<HelloSegment>>) /\ target.text = HelloQuery) =>
       /\ match # Null /\ match.matchStrategy \in {"exact", "normalized"}
       /\ FracGE(match.similarity, Frac(95, 100))

(* the quote of scenario B looked up in its transcript *)
C17_Witness ==
  /\ Matched /\ TranscriptTexts(<<WelcomeSegment, TodaySegment>>)
  /\ target.text = TodayQuery /\ opts = DefaultOptions
  /\ match # Null /\ match.startCharOffset = 0
  /\ match.endCharOffset = Len(TodaySegment) - 1

-----------------------------------------------------------------------------
(* the target is not empty, has no blank at either end and occurs in fullText *)
TargetOccursVerbatim ==
  /\ Len(target.text) > 0
  /\ target.text[1] \notin Whitespace /\ target.text[Len(target.text)] \notin Whitespace
  /\ \E p \in 0..Len(index.fullTextSpace) : OccursAt(index.fullTextSpace, target.text, p)

(* C18: findTextInTranscript tries exact, then normalized, then fuzzy and   *)
(* stops at the first success: a non-empty quote without leading or        *)
(* trailing whitespace that occurs in fullText comes back with strategy    *)
(* exact; strategy normalized is returned only when the exact step gave no *)
(* result, strategy fuzzy-ngram only when neither exact nor normalized     *)
(* gave one.                                                               *)
C18_CascadePrecedence ==
  Matched =>
    /\ TargetOccursVerbatim => (match # Null /\ match.matchStrategy = "exact")
    /\ ExactMatch(target.text, index) # Null => match = ExactMatch(target.text, index)
    /\ (match # Null /\ match.matchStrategy = "normalized") =>
         /\ ExactMatch(target.text, index) = Null
         /\ match = NormalizedMatch(target.text, index)
    /\ (match # Null /\ match.matchStrategy = "fuzzy-ngram") =>
         /\ ExactMatch(target.text, index) = Null
         /\ NormalizedMatch(target.text, index) = Null

(* a verbatim quote that the normalized step would find as well *)
C18_Witness ==
  /\ Matched /\ TargetOccursVerbatim
  /\ match # Null /\ match.matchStrategy = "exact"
  /\ NormalizedMatch(target.text, index) # Null
  /\ NormalizedMatch(target.text, index).startSegmentIdx = match.startSegmentIdx

-----------------------------------------------------------------------------
Mapped == phase = "mapped"

(* where the text of segment i starts in the texts joined by single spaces *)
SegStart(i) == IF i = 0 THEN 0 ELSE Len(WindowText(0, i - 1)) + 1

(* the segments whose text holds position p of the joined texts *)
SegmentsAt(p) ==
  {i \in 0..(Len(transcript) - 1) : SegStart(i) <= p /\ p < SegStart(i) + Len(SegText(i))}

(* C19: for every span [start, start+len) with len > 0 whose first and last *)
(* characters lie inside segment texts, mapMatchToSegments returns the     *)
(* segment holding start and the segment holding the last character, and   *)
(* the start segment's text from startCharOffset, the whole texts of the   *)
(* segments in between and the end segment's text up to endCharOffset,     *)
(* joined by single spaces, are exactly fullText[start, start+len).        *)
C19_OffsetRoundTrip ==
  (Mapped /\ call.matchLength > 0
     /\ SegmentsAt(call.matchStart) # {}
     /\ SegmentsAt(call.matchStart + call.matchLength - 1) # {})
    => /\ ret # Null
       /\ SegmentsAt(call.matchStart) = {ret.startSegmentIdx}
       /\ SegmentsAt(call.matchStart + call.matchLength - 1) = {ret.endSegmentIdx}
       /\ SpanText(ret) = SubSeq(index.fullTextSpace, call.matchStart + 1,
                                 call.matchStart + call.matchLength)

(* a span from inside one segment, over a segment without text, into a third *)
C19_Witness ==
  /\ Mapped /\ ret # Null
  /\ ret.endSegmentIdx = ret.startSegmentIdx + 2
  /\ Len(SegText(ret.startSegmentIdx + 1)) = 0
  /\ ret.startCharOffset > 0 /\ ret.endCharOffset < Len(SegText(ret.endSegmentIdx))
  /\ SpanText(ret) = SubSeq(index.fullTextSpace, call.matchStart + 1,
                            call.matchStart + call.matchLength)

-----------------------------------------------------------------------------
(* the segments from startIdx on that hold a query token *)
Candidates == {i \in opts.startIdx..(Len(transcript) - 1) : RawVotes(i) > 0}

(* the candidates the matcher examines, in its order *)
Examined == scoredSegments(index, target.text, opts.startIdx)

ExaminedSet == {Examined[k].idx : k \in 1..Len(Examined)}

(* the similarity of the query to the window of the segments first..last *)
WindowSimilarity(first, last) ==
  calculateNgramSimilarity(normalizeForMatching(target.text),
                           normalizeForMatching(WindowText(first, last)))

(* the last segments of the windows grown for candidate i *)
GrowthOf(i) == Max(0, i - 2)..Min(Len(transcript) - 1, i + opts.maxSegmentWindow)

(* the window of candidate i grown up to segment e reaches the threshold *)
Passes(i, e) == FracGE(WindowSimilarity(Max(0, i - 2), e), opts.minSimilarity)

(* the exact and the normalized step found nothing *)
FuzzyStepRan ==
  Matched /\ (match = Null \/ match.matchStrategy = "fuzzy-ngram")

(* C20: the fuzzy matcher fails at once when the normalized query has no    *)
(* token longer than 2 characters; otherwise it ranks the candidate        *)
(* segments (index >= startIdx) by vote count descending, examines only    *)
(* the top 15 in that order, grows each candidate's window one segment at  *)
(* a time from max(0, candidateIdx - 2) and returns the first window, in   *)
(* candidate order and then growth order, whose similarity is at least     *)
(* minSimilarity; it returns not-found when no window of those 15          *)
(* candidates reaches the threshold.                                       *)
C20_FuzzyExaminesTopFifteen ==
  FuzzyStepRan =>
    /\ Len(TargetWords(target.text)) = 0 => match = Null
    /\ Len(TargetWords(target.text)) > 0 =>
         /\ Len(Examined) = Min(15, Cardinality(Candidates))
         /\ Cardinality(ExaminedSet) = Len(Examined)
         /\ ExaminedSet \subseteq Candidates
         /\ \A k \in 1..Len(Examined) :
              /\ Examined[k].score = RawVotes(Examined[k].idx)
              /\ \A j \in 1..(k - 1) : Examined[j].score >= Examined[k].score
              /\ \A i \in Candidates \ ExaminedSet : RawVotes(i) <= Examined[k].score
         /\ match # Null =>
              \E k \in 1..Len(Examined) :
                /\ match.startSegmentIdx = Max(0, Examined[k].idx - 2)
                /\ match.endSegmentIdx \in GrowthOf(Examined[k].idx)
                /\ Passes(Examined[k].idx, match.endSegmentIdx)
                /\ \A e \in GrowthOf(Examined[k].idx) :
                     e < match.endSegmentIdx => ~Passes(Examined[k].idx, e)
                /\ \A j \in 1..(k - 1) : \A e \in GrowthOf(Examined[j].idx) :
                     ~Passes(Examined[j].idx, e)
         /\ match = Null =>
              \A k \in 1..Len(Examined) : \A e \in GrowthOf(Examined[k].idx) :
                ~Passes(Examined[k].idx, e)

(* not found, although a candidate ranked below the fifteenth has a window  *)
(* that reaches the threshold                                              *)
C20_Witness ==
  /\ FuzzyStepRan /\ match = Null /\ Len(TargetWords(target.text)) > 0
  /\ Len(Examined) = 15
  /\ \E i \in Candidates \ ExaminedSet : \E e \in GrowthOf(i) : Passes(i, e)

-----------------------------------------------------------------------------
(* C21: every fuzzy-ngram result spans at most maxSegmentWindow segments:   *)
(* endSegmentIdx - startSegmentIdx + 1 <= maxSegmentWindow.                *)
C21_WindowWithinMaxSegmentWindow ==
  (Matched /\ match # Null /\ match.matchStrategy = "fuzzy-ngram") =>
    match.endSegmentIdx - match.startSegmentIdx + 1 <= opts.maxSegmentWindow

-----------------------------------------------------------------------------
(* votes of segment i for a query: one per query token and per occurrence   *)
(* of that token among the words of the segment                            *)
VotesOf(text, i) ==
  LET words == TargetWords(text)
  IN Cardinality({kp \in (1..Len(words)) \X (1..Len(SegWords(i))) :
                    words[kp[1]] = SegWords(i)[kp[2]]})

(* C22: a highlight that findExactQuotes returns from the                   *)
(* timestamp-constrained pass has strategy fuzzy-ngram, so                 *)
(* hasCompleteSentences = false, similarity >= 0.75, and comes from a      *)
(* candidate segment with index >= max(0, firstOverlap - 2) whose window   *)
(* ends at most min(20, lastOverlap - firstOverlap + 5) segments after it. *)
C22_RangePassIsFuzzy ==
  (Resolved /\ TheOutcome.via = "range") =>
    LET m     == TheOutcome.match
        first == MinOf(OverlapSet)
        last  == MaxOf(OverlapSet)
    IN /\ m.matchStrategy = "fuzzy-ngram"
       /\ TheHighlight.hasCompleteSentences = FALSE
       /\ FracGE(m.similarity, Frac(75, 100))
       /\ \E i \in Max(0, first - 2)..(Len(transcript) - 1) :
            /\ VotesOf(Trim(TheQuote.text), i) > 0
            /\ m.startSegmentIdx = Max(0, i - 2)
            /\ m.endSegmentIdx <= Min(Len(transcript) - 1, i + Min(20, last - first + 5))

(* a highlight from the constrained pass whose similarity the global pass   *)
(* would have refused                                                      *)
C22_Witness ==
  /\ Resolved /\ TheOutcome.via = "range" /\ TheHighlight # Null
  /\ TheOutcome.match.matchStrategy = "fuzzy-ngram"
  /\ ~FracGE(TheOutcome.match.similarity, Frac(80, 100))

-----------------------------------------------------------------------------
Scored == phase = "scored"

NonBlank(s) == SelectSeq(s, LAMBDA c : c \notin Whitespace)

(* the 3-character substrings of s *)
Triples(s) == {<<s[i], s[i + 1], s[i + 2]>> : i \in 1..(Len(s) - 2)}

Contains(text, pat) == \E p \in 0..Len(text) : OccursAt(text, pat, p)

(* |intersection| / |union| of the triples of the stripped strings, or, when *)
(* either stripped string has fewer than 3 characters, 0.8 if one contains  *)
(* the other and 0 otherwise                                               *)
JaccardOrContainment(a, b) ==
  IF Len(NonBlank(a)) < 3 \/ Len(NonBlank(b)) < 3
  THEN IF Contains(NonBlank(a), NonBlank(b)) \/ Contains(NonBlank(b), NonBlank(a))
       THEN Frac(8, 10) ELSE Frac(0, 1)
  ELSE Frac(Cardinality(Triples(NonBlank(a)) \cap Triples(NonBlank(b))),
            Cardinality(Triples(NonBlank(a)) \cup Triples(NonBlank(b))))

(* in [0,1], symmetric, and 1 for equal strings with 3 non-blank characters *)
SimilarityLaws ==
  /\ UnitFrac(ret.value)
  /\ FracEq(ret.value, calculateNgramSimilarity(call.str2, call.str1))
  /\ (call.str1 = call.str2 /\ Len(NonBlank(call.str1)) >= 3) => FracEq(ret.value, Frac(1, 1))

(* C23 (as stated): calculateNgramSimilarity(a, b) is |intersection| /       *)
(* |union| of the 3-character substrings of the whitespace-stripped        *)
(* strings, and when either stripped string has fewer than 3 characters    *)
(* 0.8 if one contains the other and 0 otherwise, for all strings; it is   *)
(* in [0,1], symmetric, and 1 when a = b has 3 non-whitespace characters.  *)
C23_SimilarityAnyStrings ==
  Scored =>
    /\ FracEq(ret.value, JaccardOrContainment(call.str1, call.str2))
    /\ SimilarityLaws

(* C23 (amended): calculateNgramSimilarity(a, b) is 0 when a or b is the     *)
(* empty string; for non-empty a and b it is |intersection| / |union| of   *)
(* the 3-character substrings of the whitespace-stripped strings, and when *)
(* either stripped string has fewer than 3 characters 0.8 if one contains  *)
(* the other and 0 otherwise; it is in [0,1], symmetric, and 1 when a = b  *)
(* has 3 non-whitespace characters.                                        *)
C23_Similarity ==
  Scored =>
    /\ (Len(call.str1) = 0 \/ Len(call.str2) = 0) => FracEq(ret.value, Frac(0, 1))
    /\ (Len(call.str1) > 0 /\ Len(call.str2) > 0) =>
         FracEq(ret.value, JaccardOrContainment(call.str1, call.str2))
    /\ SimilarityLaws

(* two different strings that share some but not all of their triples *)
C23_Witness ==
  /\ Scored /\ call.str1 # call.str2
  /\ Len(NonBlank(call.str1)) < Len(call.str1)
  /\ ret.value.num > 0 /\ ret.value.num < ret.value.den
  /\ ret.value.den = Cardinality(Triples(NonBlank(call.str1)) \cup Triples(NonBlank(call.str2)))

-----------------------------------------------------------------------------
NormalizedMapped == phase = "normalized-mapped"

NormText(i) == normalizeForMatching(SegText(i))

(* where segment i starts in the normalized texts joined by single spaces *)
NormStart(i) ==
  IF i = 0 THEN 0 ELSE Len(JoinSpace([k \in 1..i |-> NormText(k - 1)])) + 1

(* the segments whose normalized interval holds position p *)
NormSegmentsAt(p) ==
  {i \in 0..(Len(transcript) - 1) : NormStart(i) <= p /\ p < NormStart(i) + Len(NormText(i))}

(* the hit has no blank at either end, as every trimmed query has *)
TrimmedHit ==
  /\ call.normalizedTargetText[1] # " "
  /\ call.normalizedTargetText[Len(call.normalizedTargetText)] # " "

(* C24: for a hit at position p of length L in normalizedText of a          *)
(* non-empty trimmed query, mapNormalizedMatchToSegments returns a result: *)
(* the start segment is the one whose normalized interval contains p, the  *)
(* end segment the one whose normalized interval contains p + L - 1,       *)
(* startCharOffset = min(p - normalized start of the start segment,        *)
(* len(original text) - 1) and endCharOffset = min(p + L - normalized      *)
(* start of the end segment, len(original text)).                          *)
C24_NormalizedBackmap ==
  (NormalizedMapped /\ TrimmedHit) =>
    LET p == call.normalizedMatchIdx
        L == Len(call.normalizedTargetText)
    IN /\ ret # Null
       /\ NormSegmentsAt(p) = {ret.startSegmentIdx}
       /\ NormSegmentsAt(p + L - 1) = {ret.endSegmentIdx}
       /\ ret.startCharOffset = Min(p - NormStart(ret.startSegmentIdx),
                                    Len(SegText(ret.startSegmentIdx)) - 1)
       /\ ret.endCharOffset = Min(p + L - NormStart(ret.endSegmentIdx),
                                  Len(SegText(ret.endSegmentIdx)))

(* a hit from one segment over a segment with empty normalized text into a  *)
(* third, ending before the end of a text that normalization shortened     *)
C24_Witness ==
  /\ NormalizedMapped /\ TrimmedHit /\ ret # Null
  /\ ret.endSegmentIdx = ret.startSegmentIdx + 2
  /\ Len(NormText(ret.startSegmentIdx + 1)) = 0
  /\ Len(NormText(ret.endSegmentIdx)) < Len(SegText(ret.endSegmentIdx))
  /\ ret.startCharOffset > 0

-----------------------------------------------------------------------------
(* the words longer than 2 characters of some segment *)
IndexedWords ==
  UNION {{SegWords(i)[k] : k \in {j \in 1..Len(SegWords(i)) : Len(SegWords(i)[j]) > 2}}
           : i \in 0..(Len(transcript) - 1)}

(* how often w is a word of segment i *)
Occurrences(w, i) == Cardinality({k \in 1..Len(SegWords(i)) : SegWords(i)[k] = w})

(* the 3-character substrings of segment i's normalized text without blanks *)
SegTriples(i) == Triples(NonBlank(NormText(i)))

(* C25: after buildTranscriptIndex, segment i appears in wordIndex[w]        *)
(* exactly once per occurrence of w as a whitespace-separated token of     *)
(* length > 2 in segment i's normalized text, posting lists are in         *)
(* non-decreasing segment order and no word of length <= 2 is a key; i is  *)
(* in ngramIndex[g] if and only if g is a 3-character substring of segment *)
(* i's whitespace-stripped normalized text.                                *)
C25_IndexContents ==
  Indexed =>
    /\ DOMAIN index.wordIndex = IndexedWords
    /\ \A w \in DOMAIN index.wordIndex :
         /\ Len(w) > 2
         /\ \A k \in 1..(Len(index.wordIndex[w]) - 1) :
              index.wordIndex[w][k] <= index.wordIndex[w][k + 1]
         /\ \A i \in 0..(Len(transcript) - 1) :
              Cardinality({k \in 1..Len(index.wordIndex[w]) : index.wordIndex[w][k] = i})
                = Occurrences(w, i)
    /\ DOMAIN index.ngramIndex = UNION {SegTriples(i) : i \in 0..(Len(transcript) - 1)}
    /\ \A g \in DOMAIN index.ngramIndex :
         index.ngramIndex[g] = {i \in 0..(Len(transcript) - 1) : g \in SegTriples(i)}

(* a word said twice in one segment and again in a later one, and two       *)
(* segments whose adjoining letters form no n-gram of the index            *)
C25_Witness ==
  /\ Indexed /\ Len(transcript) = 3
  /\ \E w \in DOMAIN index.wordIndex : index.wordIndex[w] = <<0, 0, 2>>
  /\ \E a \in SegTriples(0) : \E b \in SegTriples(2) :
       <<a[2], a[3], b[1]>> \notin DOMAIN index.ngramIndex

-----------------------------------------------------------------------------
(* C26: for the empty transcript buildTranscriptIndex returns an empty      *)
(* index (empty fullText and normalizedText, no boundaries, empty wordIndex *)
(* and ngramIndex), and findTextInTranscript on that index returns          *)
(* not-found for every quote.                                              *)
C26_EmptyTranscript ==
  Len(transcript) = 0 =>
    /\ Indexed =>
         /\ index.fullTextSpace = <<>>
         /\ index.fullTextNewline = <<>>
         /\ index.normalizedText = <<>>
         /\ index.segmentBoundaries = <<>>
         /\ DOMAIN index.wordIndex = {}
         /\ DOMAIN index.ngramIndex = {}
    /\ Matched => match = Null

(* the empty quote, which the search locates at position 0, looked up in    *)
(* the index of the empty transcript                                       *)
C26_Witness ==
  /\ Matched /\ Len(transcript) = 0
  /\ target.text = <<>>
  /\ boyerMooreSearch(index.fullTextSpace, target.text) = 0

(* a quote with words of its own looked up in the index of the empty       *)
(* transcript                                                              *)
C26_WitnessWords ==
  /\ Matched /\ Len(transcript) = 0
  /\ TargetWords(normalizeForMatching(target.text)) # <<>>

-----------------------------------------------------------------------------
(* segments ordered by ascending start, each with a positive duration *)
AscendingStarts ==
  /\ \A i \in 1..(Len(transcript) - 1) : transcript[i].start <= transcript[i + 1].start
  /\ \A i \in 1..Len(transcript) : transcript[i].duration > 0

(* C27: every highlight returned by findExactQuotes has start =             *)
(* transcript[startSegmentIdx].start and end = transcript[endSegmentIdx]    *)
(* .start + transcript[endSegmentIdx].duration, with startSegmentIdx <=     *)
(* endSegmentIdx both valid indices of the transcript; so for segments      *)
(* ordered by ascending start with positive durations, end > start.         *)
C27_HighlightTimes ==
  Resolved =>
    \A k \in 1..Len(highlights) :
      LET h == highlights[k]
      IN /\ h.startSegmentIdx \in 0..(Len(transcript) - 1)
         /\ h.endSegmentIdx \in 0..(Len(transcript) - 1)
         /\ h.startSegmentIdx <= h.endSegmentIdx
         /\ h.start = transcript[h.startSegmentIdx + 1].start
         /\ h.end = transcript[h.endSegmentIdx + 1].start
                      + transcript[h.endSegmentIdx + 1].duration
         /\ AscendingStarts => h.end > h.start

(* a highlight of a located quote that runs over several segments *)
C27_Witness ==
  /\ Resolved /\ Len(highlights) = 1
  /\ TheOutcome.via \in {"global", "range"}
  /\ highlights[1].startSegmentIdx < highlights[1].endSegmentIdx
  /\ highlights[1].end > highlights[1].start

(* a highlight of the timestamp fallback that runs over several segments *)
C27_WitnessFallback ==
  /\ Resolved /\ Len(highlights) = 1
  /\ TheOutcome.via = "fallback"
  /\ highlights[1].startSegmentIdx < highlights[1].endSegmentIdx
  /\ highlights[1].end > highlights[1].start

-----------------------------------------------------------------------------
(* C28: in the timestamp fallback the returned text covers the returned     *)
(* span: for every transcript ordered by ascending start, text equals the   *)
(* texts of all segments with index in [startSegmentIdx, endSegmentIdx]     *)
(* joined by single spaces.                                                *)
C28_FallbackTextCoversSpan ==
  (Resolved /\ TheOutcome.via = "fallback" /\ AscendingStarts) =>
    /\ OverlapSet = TheHighlight.startSegmentIdx..TheHighlight.endSegmentIdx
    /\ TheHighlight.text =
         JoinSpace([k \in 1..(TheHighlight.endSegmentIdx - TheHighlight.startSegmentIdx + 1) |->
                      SegText(TheHighlight.startSegmentIdx + k - 1)])

-----------------------------------------------------------------------------
(* C29: every fuzzy-ngram result covers the candidate segment that          *)
(* produced it: the returned range [startSegmentIdx, endSegmentIdx]         *)
(* contains at least one segment whose normalized text contains a query     *)
(* token of length > 2, and startSegmentIdx >= max(0, startIdx - 2).        *)
C29_FuzzyCoversCandidate ==
  (Matched /\ match # Null /\ match.matchStrategy = "fuzzy-ngram") =>
    /\ \E i \in match.startSegmentIdx..match.endSegmentIdx :
         \E k \in 1..Len(TargetWords(target.text)) :
           Includes(NormText(i), TargetWords(target.text)[k])
    /\ match.startSegmentIdx >= Max(0, opts.startIdx - 2)

-----------------------------------------------------------------------------
Chunking == phase = "chunking"

Chunked == phase = "chunked"

(* C30: chunkTranscript terminates for every non-empty list of segments     *)
(* ordered by ascending start with positive durations and every chunk       *)
(* duration and overlap: the window start strictly increases on each        *)
(* iteration of the outer loop, so the call returns a finite list of chunks. *)
C30_ChunkingTerminates ==
  /\ [][ChunkStep => call'.windowStart > call.windowStart]_vars
  /\ (Chunking /\ AscendingStarts) ~> Chunked

=============================================================================
